---- MODULE Spec2Model ----
(***************************************************************************)
(* A model of thejoeyg/training-routes: the waypoint generator and its     *)
(* geometry helpers (src/public/route-generator.js, lines 1-140) and the   *)
(* page that drives them through the routing proxy (the same file, lines   *)
(* 158-753).                                                               *)
(*                                                                         *)
(* Numbers.  JavaScript numbers are modelled as exact rationals <<n, d>>   *)
(* with d > 0 and gcd(n, d) = 1, so that 1609.34, 0.02, 1.05, the          *)
(* tolerance band and every comparison of the code are computed, not       *)
(* assumed.  Rounding of IEEE doubles is not modelled.                     *)
(*                                                                         *)
(* Radii.  Every radius the program computes is a rational multiple of     *)
(* sqrt(rational) / (2*pi).  A radius r is the record [c, s] with          *)
(* 2*pi*r = c * sqrt(s), c and s rational, s > 0.                          *)
(***************************************************************************)
EXTENDS Integers, Sequences, FiniteSets, TLC

(***************************************************************************)
(* Exact rational arithmetic                                               *)
(***************************************************************************)
Abs(n) == IF n < 0 THEN -n ELSE n

RECURSIVE Gcd(_, _)
Gcd(a, b) == IF b = 0 THEN a ELSE Gcd(b, a % b)

Norm(n, d) ==
  LET g == Gcd(Abs(n), Abs(d))
      s == IF d < 0 THEN -1 ELSE 1
  IN  <<(s * n) \div g, (s * d) \div g>>

I(n) == <<n, 1>>

RNeg(x) == <<-x[1], x[2]>>

RAdd(x, y) ==
  LET g == Gcd(x[2], y[2])
  IN  Norm(x[1] * (y[2] \div g) + y[1] * (x[2] \div g), (x[2] \div g) * y[2])

RSub(x, y) == RAdd(x, RNeg(y))

RMul(x, y) ==
  LET a == Norm(x[1], y[2])
      b == Norm(y[1], x[2])
  IN  Norm(a[1] * b[1], a[2] * b[2])

RDiv(x, y) == RMul(x, Norm(y[2], y[1]))

RLt(x, y) ==
  LET g == Gcd(x[2], y[2])
  IN  x[1] * (y[2] \div g) < y[1] * (x[2] \div g)

RGt(x, y) == RLt(y, x)

RLe(x, y) == ~RLt(y, x)

RGe(x, y) == ~RLt(x, y)

RMax(x, y) == IF RLt(x, y) THEN y ELSE x

RMin(x, y) == IF RLt(y, x) THEN y ELSE x

(***************************************************************************)
(* Constants of route-generator.js                                         *)
(***************************************************************************)
METERS_PER_MILE == <<80467, 50>>

ROAD_WINDING_FACTOR == <<13, 10>>

\* null (also undefined and NaN) is the empty tuple; a value v held by a
\* nullable variable is the one-element tuple <<v>>.
null == <<>>

Some(v) == <<v>>

Val(o) == o[1]

(***************************************************************************)
(* getWaypointCount                                                        *)
(***************************************************************************)
getWaypointCount_offByOne(distanceMiles) ==
  IF RLe(distanceMiles, I(5)) THEN 4
  ELSE IF RLt(distanceMiles, I(13)) THEN 6
  ELSE 8

getWaypointCount(distanceMiles) ==
  IF RLt(distanceMiles, I(5)) THEN 4
  ELSE IF RLt(distanceMiles, I(13)) THEN 6
  ELSE 8

(***************************************************************************)
(* Geometry helpers.  A point is [lat, lng], a polygon a sequence of       *)
(* points; polygon[j] of the code's loops (j = i++ with j starting at the  *)
(* last index) is the predecessor of polygon[i], wrapping.                 *)
(***************************************************************************)
Pt(lat, lng) == [lat |-> lat, lng |-> lng]

Prev(i, polygon) == IF i = 1 THEN Len(polygon) ELSE i - 1

EdgeToggles(lat, lng, polygon, i) ==
  LET yi == polygon[i].lat
      xi == polygon[i].lng
      yj == polygon[Prev(i, polygon)].lat
      xj == polygon[Prev(i, polygon)].lng
  IN  /\ RGt(yi, lat) # RGt(yj, lat)
      /\ RLt(lng, RAdd(RDiv(RMul(RSub(xj, xi), RSub(lat, yi)), RSub(yj, yi)), xi))

pointInPolygon_anyCrossing(lat, lng, polygon) ==
  \E i \in 1..Len(polygon) : EdgeToggles(lat, lng, polygon, i)

pointInPolygon(lat, lng, polygon) ==
  Cardinality({i \in 1..Len(polygon) : EdgeToggles(lat, lng, polygon, i)}) % 2 = 1

projectToSegment_unclamped(lat, lng, a, b) ==
  LET dx == RSub(b.lng, a.lng)
      dy == RSub(b.lat, a.lat)
      lenSq == RAdd(RMul(dx, dx), RMul(dy, dy))
      t == RDiv(RAdd(RMul(RSub(lng, a.lng), dx), RMul(RSub(lat, a.lat), dy)), lenSq)
  IN  IF lenSq = I(0) THEN Pt(a.lat, a.lng)
      ELSE Pt(RAdd(a.lat, RMul(t, dy)), RAdd(a.lng, RMul(t, dx)))

projectToSegment(lat, lng, a, b) ==
  LET dx == RSub(b.lng, a.lng)
      dy == RSub(b.lat, a.lat)
      lenSq == RAdd(RMul(dx, dx), RMul(dy, dy))
      t0 == RDiv(RAdd(RMul(RSub(lng, a.lng), dx), RMul(RSub(lat, a.lat), dy)), lenSq)
      t == RMax(I(0), RMin(I(1), t0))
  IN  IF lenSq = I(0) THEN Pt(a.lat, a.lng)
      ELSE Pt(RAdd(a.lat, RMul(t, dy)), RAdd(a.lng, RMul(t, dx)))

polygonCentroid(polygon) ==
  LET RECURSIVE Sum(_, _)
      Sum(k, f) == IF k = 0 THEN I(0)
                   ELSE RAdd(Sum(k - 1, f), IF f = "lat" THEN polygon[k].lat ELSE polygon[k].lng)
      n == I(Len(polygon))
  IN  Pt(RDiv(Sum(Len(polygon), "lat"), n), RDiv(Sum(Len(polygon), "lng"), n))

\* (proj.lat - lat) ** 2 + (proj.lng - lng) ** 2
SquaredDistance(proj, lat, lng) ==
  RAdd(RMul(RSub(proj.lat, lat), RSub(proj.lat, lat)),
       RMul(RSub(proj.lng, lng), RSub(proj.lng, lng)))

\* The scan of lines 53-63: the first strictly closest projection wins
\* (bestDist null stands for Infinity).  Closest is the loop body once proj
\* and d are computed, NearestScan the loop from edge i on.
RECURSIVE NearestScan(_, _, _, _, _, _)
Closest(lat, lng, polygon, i, bestDist, bestPoint, proj, d) ==
  IF bestDist = null \/ RLt(d, Val(bestDist))
  THEN NearestScan(lat, lng, polygon, i + 1, Some(d), proj)
  ELSE NearestScan(lat, lng, polygon, i + 1, bestDist, bestPoint)

Projected(lat, lng, polygon, i, bestDist, bestPoint, proj) ==
  Closest(lat, lng, polygon, i, bestDist, bestPoint, proj, SquaredDistance(proj, lat, lng))

NearestScan(lat, lng, polygon, i, bestDist, bestPoint) ==
  IF i > Len(polygon) THEN bestPoint
  ELSE Projected(lat, lng, polygon, i, bestDist, bestPoint,
                 projectToSegment(lat, lng, polygon[Prev(i, polygon)], polygon[i]))

\* Lines 65-71: the nudge of 2% toward the centroid.
Nudged(bestPoint, centroid) ==
  LET nudge == <<1, 50>>
  IN  Pt(RAdd(bestPoint.lat, RMul(RSub(centroid.lat, bestPoint.lat), nudge)),
         RAdd(bestPoint.lng, RMul(RSub(centroid.lng, bestPoint.lng), nudge)))

nearestPointOnPolygon(lat, lng, polygon) ==
  Nudged(NearestScan(lat, lng, polygon, 1, null, Pt(lat, lng)), polygonCentroid(polygon))

(***************************************************************************)
(* generateWaypoints.  Math.random() and the polar arithmetic of lines     *)
(* 96-107 are modelled on a grid whose unit is a quarter of the base       *)
(* radius: the shared random offset is one of SECTORS directions, and      *)
(* waypoint i is displaced by Polar(angle), the grid point nearest to      *)
(* radius * jitter * (cos angle, sin angle), whose length is within the    *)
(* jitter band [0.85, 1.15) of the radius.  rnd is the outcome of the      *)
(* random choices of one call.                                             *)
(***************************************************************************)
SECTORS == 24

Quadrant == << <<4, 0>>, <<4, 1>>, <<3, 2>>, <<3, 3>>, <<2, 3>>, <<1, 4>> >>

RECURSIVE Rot90(_, _)
Rot90(v, k) == IF k = 0 THEN v ELSE Rot90(<<-v[2], v[1]>>, k - 1)

Polar(angle) ==
  LET a == angle % SECTORS
      v == Rot90(Quadrant[(a % 6) + 1], a \div 6)
  IN  [dLat |-> I(v[1]), dLng |-> I(v[2])]

\* radiusOverride || targetCircumferenceMeters / (2 * Math.PI * ROAD_WINDING_FACTOR)
FalsyRadius(r) == r = null \/ Val(r).c = I(0)

radius_zeroIsOverride(distanceMiles, radiusOverride) ==
  LET targetCircumferenceMeters == RMul(distanceMiles, METERS_PER_MILE)
  IN  IF radiusOverride = null
      THEN [c |-> RDiv(targetCircumferenceMeters, ROAD_WINDING_FACTOR), s |-> I(1)]
      ELSE Val(radiusOverride)

radius(distanceMiles, radiusOverride) ==
  LET targetCircumferenceMeters == RMul(distanceMiles, METERS_PER_MILE)
  IN  IF FalsyRadius(radiusOverride)
      THEN [c |-> RDiv(targetCircumferenceMeters, ROAD_WINDING_FACTOR), s |-> I(1)]
      ELSE Val(radiusOverride)

constrain_fromTwoVertices(lat, lng, boundary) ==
  IF boundary # null /\ Len(Val(boundary)) >= 2
  THEN IF ~pointInPolygon(lat, lng, Val(boundary))
       THEN nearestPointOnPolygon(lat, lng, Val(boundary))
       ELSE Pt(lat, lng)
  ELSE Pt(lat, lng)

\* Lines 112-119: the boundary constraint applied to one computed point.
constrain(lat, lng, boundary) ==
  IF boundary # null /\ Len(Val(boundary)) >= 3
  THEN IF ~pointInPolygon(lat, lng, Val(boundary))
       THEN nearestPointOnPolygon(lat, lng, Val(boundary))
       ELSE Pt(lat, lng)
  ELSE Pt(lat, lng)

\* Lines 96-124: the loop that places the waypoints.
placeWaypoints(startLat, startLng, count, boundary, rnd) ==
  LET Waypoint(i) ==
        LET angle == rnd.offset + (SECTORS * i) \div count
            lat == RAdd(startLat, Polar(angle).dLat)
            lng == RAdd(startLng, Polar(angle).dLng)
        IN  constrain(lat, lng, boundary)
  IN  [k \in 1..count |-> Waypoint(k - 1)]

RandomOutcomes == [offset : 0..(SECTORS - 1)]

(***************************************************************************)
(* The page (route-generator.js, lines 158-753)                            *)
(***************************************************************************)
VARIABLES
  startLocation,             \* null or a point
  currentPolyline,           \* null or the polyline of the route drawn
  lastDistanceMiles,
  lastActualDistanceMeters,
  lastWaypoints,
  boundaryMode,
  boundaryVertices,
  boundaryPolygon,           \* null or the paths of the finalized polygon
  dom,                       \* disabled / hidden / text of the page's elements
  runs,                      \* the computeRoute calls: locals and position
  inflight,                  \* POST /api/route requests awaiting a response
  gCall,                     \* direct call of a pure function: its arguments
  gResult,                   \* and its result
  server                     \* the handler of POST /api/route (src/api/route.js)

locVars == <<startLocation>>

routeVars == <<currentPolyline, lastDistanceMiles, lastWaypoints>>

bndVars == <<boundaryMode, boundaryVertices, boundaryPolygon>>

pageVars == <<locVars, routeVars, bndVars, lastActualDistanceMeters, dom, runs, inflight>>

geoVars == <<gCall, gResult>>

\* What no handler of the page touches.
offPageVars == <<geoVars, server>>

vars == <<pageVars, geoVars, server>>

(***************************************************************************)
(* Bounds and input sets                                                   *)
(***************************************************************************)
\* Vertices the user draws, clicked in this order; the first MaxVertices count.
MaxVertices == 3

BoundaryPath ==
  << Pt(I(0), I(0)), Pt(I(0), I(4)), Pt(I(4), I(4)), Pt(I(1), I(2)), Pt(I(4), I(0)),
     Pt(I(2), I(-1)) >>

\* Places the user picks as start.
StartClicks == {Pt(I(1), I(3))}

\* Values of the distance input when a button is clicked: unparsable, below
\* and above the accepted range, and accepted.
DistanceInputs == {null, Some(<<2, 5>>), Some(I(5)), Some(I(60))}

\* Outcomes of Math.random() in one generateWaypoints call of the page.
PageRandom == {[offset |-> 0]}

\* distanceMeters of a returned route, as a multiple of the target distance:
\* 0, 4% short, the band's two edges, 11% long.
ObservedFactors == {I(0), <<24, 25>>, <<97, 100>>, <<11, 10>>, <<111, 100>>}

\* The boundaries the page can pass: what the user has drawn so far.
PageBoundaries == {SubSeq(BoundaryPath, 1, n) : n \in 0..MaxVertices}

\* placeWaypoints for the arguments the page can pass, computed once.
PlacedTable ==
  [c \in StartClicks \X {4, 6, 8} \X PageBoundaries \X PageRandom |->
     placeWaypoints(c[1].lat, c[1].lng, c[2], Some(c[3]), c[4])] @@ <<>>

generateWaypoints(startLat, startLng, distanceMiles, radiusOverride, boundary, rnd) ==
  LET count == getWaypointCount(distanceMiles)
      r == radius(distanceMiles, radiusOverride)
      key == <<Pt(startLat, startLng), count, IF boundary = null THEN <<>> ELSE Val(boundary), rnd>>
  IN  IF boundary # null /\ key \in DOMAIN PlacedTable
      THEN PlacedTable[key]
      ELSE placeWaypoints(startLat, startLng, count, boundary, rnd)

(***************************************************************************)
(* computeRoute: the arithmetic of the refinement loop                     *)
(***************************************************************************)
maxAttempts_five == 4 + 1

maxAttempts == 4

\* distanceMiles * 1609.34
targetMetersOf(distanceMiles) == RMul(distanceMiles, <<80467, 50>>)

\* !distanceMiles || distanceMiles < 0.5 || distanceMiles > 50
InvalidDistance(distanceMiles) ==
  \/ distanceMiles = null
  \/ Val(distanceMiles) = I(0)
  \/ RLt(Val(distanceMiles), <<1, 2>>)
  \/ RGt(Val(distanceMiles), I(50))

\* !lastActualDistanceMeters
FalsyNumber(x) == x = null \/ Val(x) = I(0)

adjustedRadius_inverseRatio(distanceMiles, lastRadius, lastActual) ==
  LET targetMeters == targetMetersOf(distanceMiles)
      biasedTarget == RMul(targetMeters, <<21, 20>>)
      ratio == RDiv(lastActual, biasedTarget)
      baseRadius == [c |-> RDiv(targetMetersOf(distanceMiles), <<23, 20>>), s |-> I(1)]
      from == IF FalsyRadius(lastRadius) THEN baseRadius ELSE Val(lastRadius)
  IN  [c |-> from.c, s |-> RMul(from.s, ratio)]

\* Lines 384-388: the radius of a retry.
adjustedRadius(distanceMiles, lastRadius, lastActual) ==
  LET targetMeters == targetMetersOf(distanceMiles)
      biasedTarget == RMul(targetMeters, <<21, 20>>)
      ratio == RDiv(biasedTarget, lastActual)
      baseRadius == [c |-> RDiv(targetMetersOf(distanceMiles), <<23, 20>>), s |-> I(1)]
      from == IF FalsyRadius(lastRadius) THEN baseRadius ELSE Val(lastRadius)
  IN  [c |-> from.c, s |-> RMul(from.s, ratio)]

\* Lines 412-418.
pctDiff(distanceMiles, actual) ==
  LET targetMeters == targetMetersOf(distanceMiles)
      diff == RSub(actual, targetMeters)
  IN  RDiv(diff, targetMeters)

tooLong(distanceMiles, actual) == RGt(pctDiff(distanceMiles, actual), <<1, 10>>)

tooShort_inclusive(distanceMiles, actual) ==
  RLe(pctDiff(distanceMiles, actual), <<-3, 100>>)

tooShort(distanceMiles, actual) == RLt(pctDiff(distanceMiles, actual), <<-3, 100>>)

breaks_withoutBudget(distanceMiles, actual, attempts) ==
  ~tooLong(distanceMiles, actual) /\ ~tooShort(distanceMiles, actual)

\* Line 420: the loop is left.
breaks(distanceMiles, actual, attempts) ==
  \/ ~tooLong(distanceMiles, actual) /\ ~tooShort(distanceMiles, actual)
  \/ attempts >= maxAttempts

\* The constraint a boundary argument stands for: fewer than 3 vertices
\* constrain nothing (line 113).
Effective(boundary) == IF Len(boundary) >= 3 THEN boundary ELSE <<>>

attempt_carryOver(attempts, distanceMiles, lastRadius, lastActual, rnd) ==
  LET fresh == FalsyNumber(lastActual)
      override == IF fresh
                  THEN null
                  ELSE Some(adjustedRadius(distanceMiles, lastRadius, Val(lastActual)))
  IN  [override |-> override,
       lastRadius |-> IF fresh THEN lastRadius ELSE override,
       boundary |-> boundaryVertices,
       waypoints |-> generateWaypoints(Val(startLocation).lat, Val(startLocation).lng,
                                       distanceMiles, override, Some(boundaryVertices), rnd)]

\* Lines 380-391: the waypoints of one attempt.  lastActual is the value of
\* lastActualDistanceMeters when the attempt starts; override is the
\* radiusOverride the attempt passes to generateWaypoints.
attempt(attempts, distanceMiles, lastRadius, lastActual, rnd) ==
  LET fresh == attempts = 1 \/ FalsyNumber(lastActual)
      override == IF fresh
                  THEN null
                  ELSE Some(adjustedRadius(distanceMiles, lastRadius, Val(lastActual)))
  IN  [override |-> override,
       lastRadius |-> IF fresh THEN lastRadius ELSE override,
       boundary |-> boundaryVertices,
       waypoints |-> generateWaypoints(Val(startLocation).lat, Val(startLocation).lng,
                                       distanceMiles, override, Some(boundaryVertices), rnd)]

(***************************************************************************)
(* computeRoute: the calls.  A call is followed from the click that starts *)
(* it to its finally block; runs[r] holds its locals (distanceMiles,       *)
(* attempts, lastRadius, waypoints), its position pc, and override and     *)
(* boundary, the radiusOverride and the boundary constraint of its latest  *)
(* generateWaypoints call.                                                 *)
(***************************************************************************)
IdleRun ==
  [pc |-> "idle", distanceMiles |-> null, attempts |-> 0, lastRadius |-> null,
   waypoints |-> <<>>, override |-> null, boundary |-> <<>>]

NoRouteMessage_generic == "Route generation failed"

NoRouteMessage == "No route found. Try a different starting location."

DistanceMessage == "Enter a distance between 0.5 and 50 miles"

\* Bodies of the error responses of POST /api/route (src/api/route.js).
HttpErrorData ==
  { [details |-> Some("Routes API error detail"), error |-> Some("Routes API error")],
    [details |-> null, error |-> Some("Failed to compute route")],
    [details |-> null, error |-> null] }

\* The pending fetch of call r.
ReqOf(r) == CHOOSE req \in inflight : req.run = r

\* A response with one route of the given length; polyline names the
\* request it answers.
RouteResponse(r, meters) ==
  [ok |-> TRUE, data |-> [details |-> null, error |-> null],
   routes |-> Some(<<[distanceMeters |-> meters,
                      polyline |-> <<r, ReqOf(r).attempts>>]>>)]

\* Responses with no route: routes missing, routes empty.
NoRouteResponses ==
  {[ok |-> TRUE, data |-> [details |-> null, error |-> null], routes |-> null],
   [ok |-> TRUE, data |-> [details |-> null, error |-> null], routes |-> Some(<<>>)]}

\* Responses with an error status.
HttpErrorResponses == {[ok |-> FALSE, data |-> d, routes |-> null] : d \in HttpErrorData}

\* The call a click starts is followed in the first free place of runs.
FreeRuns == {r \in DOMAIN runs : runs[r].pc = "idle"}

NewRun == CHOOSE r \in FreeRuns : \A q \in FreeRuns : r <= q

\* Lines 393-397.
Request(r, attempts, distanceMiles, waypoints) ==
  [run |-> r, attempts |-> attempts, distanceMiles |-> distanceMiles,
   origin |-> Val(startLocation), waypoints |-> waypoints]

computeRoute_validatesFirst(isRegenerate, value, rnds) ==
  /\ FreeRuns # {}
  /\ IF InvalidDistance(value)
     THEN /\ dom' = [dom EXCEPT !.error = Some(DistanceMessage)]
          /\ UNCHANGED <<locVars, routeVars, bndVars, lastActualDistanceMeters, runs,
                         inflight>>
     ELSE IF startLocation = null
     THEN UNCHANGED pageVars
     ELSE \E rnd \in rnds :
          \E a \in {attempt(1, Val(value), null, lastActualDistanceMeters, rnd)} :
            LET r == NewRun
                distanceMiles == Val(value)
            IN  /\ dom' = [dom EXCEPT !.loading_hidden = FALSE,
                                      !.error = null,
                                      !.routeInfo_hidden = TRUE,
                                      !.link_hidden = TRUE,
                                      !.generate_disabled = TRUE,
                                      !.regenerate_disabled = TRUE]
                /\ runs' = [runs EXCEPT ![r] =
                              [pc |-> "fetch", distanceMiles |-> Some(distanceMiles),
                               attempts |-> 1, lastRadius |-> a.lastRadius,
                               waypoints |-> a.waypoints, override |-> a.override,
                               boundary |-> Effective(a.boundary)]]
                /\ inflight' = inflight \cup {Request(r, 1, distanceMiles, a.waypoints)}
                /\ UNCHANGED <<locVars, routeVars, bndVars, lastActualDistanceMeters>>
  /\ UNCHANGED offPageVars

\* Lines 351-397: from the click to the first fetch.
computeRoute(isRegenerate, value, rnds) ==
  /\ FreeRuns # {}
  /\ IF startLocation = null
     THEN UNCHANGED pageVars
     ELSE IF InvalidDistance(value)
     THEN /\ dom' = [dom EXCEPT !.error = Some(DistanceMessage)]
          /\ UNCHANGED <<locVars, routeVars, bndVars, lastActualDistanceMeters, runs,
                         inflight>>
     ELSE \E rnd \in rnds :
          \E a \in {attempt(1, Val(value), null, lastActualDistanceMeters, rnd)} :
            LET r == NewRun
                distanceMiles == Val(value)
            IN  /\ dom' = [dom EXCEPT !.loading_hidden = FALSE,
                                      !.error = null,
                                      !.routeInfo_hidden = TRUE,
                                      !.link_hidden = TRUE,
                                      !.generate_disabled = TRUE,
                                      !.regenerate_disabled = TRUE]
                /\ runs' = [runs EXCEPT ![r] =
                              [pc |-> "fetch", distanceMiles |-> Some(distanceMiles),
                               attempts |-> 1, lastRadius |-> a.lastRadius,
                               waypoints |-> a.waypoints, override |-> a.override,
                               boundary |-> Effective(a.boundary)]]
                /\ inflight' = inflight \cup {Request(r, 1, distanceMiles, a.waypoints)}
                /\ UNCHANGED <<locVars, routeVars, bndVars, lastActualDistanceMeters>>
  /\ UNCHANGED offPageVars

\* Lines 298-299: the buttons; value is the content of the distance input.
ClickGenerate(values, rnds) ==
  /\ ~dom.generate_disabled
  /\ \E value \in values : computeRoute(FALSE, value, rnds)

ClickRegenerate(values, rnds) ==
  /\ ~dom.regenerate_disabled
  /\ \E value \in values : computeRoute(TRUE, value, rnds)

\* Lines 430-435: catch and finally.
Fail(r, message) ==
  /\ dom' = [dom EXCEPT !.error = Some(message),
                        !.loading_hidden = TRUE,
                        !.generate_disabled = (startLocation = null)]
  /\ runs' = [runs EXCEPT ![r] = IdleRun]
  /\ UNCHANGED <<locVars, routeVars, bndVars>>

\* Lines 497-515: whether the link is hidden.
buildGoogleMapsLink(waypoints) ==
  startLocation = null \/ Len(waypoints) = 0

\* Lines 425-429 and 432-435: the route is drawn and the call ends.
Succeed(r, routeData) ==
  /\ lastDistanceMiles' = runs[r].distanceMiles
  /\ lastWaypoints' = runs[r].waypoints
  /\ currentPolyline' = Some(routeData.polyline)
  /\ dom' = [dom EXCEPT !.routeInfo_hidden = FALSE,
                        !.link_hidden = buildGoogleMapsLink(runs[r].waypoints),
                        !.regenerate_disabled = FALSE,
                        !.loading_hidden = TRUE,
                        !.generate_disabled = (startLocation = null)]
  /\ runs' = [runs EXCEPT ![r] = IdleRun]
  /\ UNCHANGED <<locVars, bndVars>>

Retry_staleDistance(r, routeData, rnd) ==
  \E a \in {attempt(runs[r].attempts + 1, Val(runs[r].distanceMiles), runs[r].lastRadius,
                     lastActualDistanceMeters, rnd)} :
    LET run == runs[r]
        distanceMiles == Val(run.distanceMiles)
        attempts == run.attempts + 1
    IN  /\ runs' = [runs EXCEPT ![r] =
                      [run EXCEPT !.attempts = attempts,
                                  !.lastRadius = a.lastRadius,
                                  !.waypoints = a.waypoints,
                                  !.override = a.override,
                                  !.boundary = Effective(a.boundary)]]
        /\ inflight' = (inflight \ {ReqOf(r)})
                         \cup {Request(r, attempts, distanceMiles, a.waypoints)}
        /\ UNCHANGED <<locVars, routeVars, bndVars, dom>>

Retry_keepsPending(r, routeData, rnd) ==
  \E a \in {attempt(runs[r].attempts + 1, Val(runs[r].distanceMiles), runs[r].lastRadius,
                     Some(routeData.distanceMeters), rnd)} :
    LET run == runs[r]
        distanceMiles == Val(run.distanceMiles)
        attempts == run.attempts + 1
    IN  /\ runs' = [runs EXCEPT ![r] =
                      [run EXCEPT !.attempts = attempts,
                                  !.lastRadius = a.lastRadius,
                                  !.waypoints = a.waypoints,
                                  !.override = a.override,
                                  !.boundary = Effective(a.boundary)]]
        /\ inflight' = inflight
                         \cup {Request(r, attempts, distanceMiles, a.waypoints)}
        /\ UNCHANGED <<locVars, routeVars, bndVars, dom>>

\* Lines 377-397, entered again: the next attempt and its fetch.
Retry(r, routeData, rnd) ==
  \E a \in {attempt(runs[r].attempts + 1, Val(runs[r].distanceMiles), runs[r].lastRadius,
                     Some(routeData.distanceMeters), rnd)} :
    LET run == runs[r]
        distanceMiles == Val(run.distanceMiles)
        attempts == run.attempts + 1
    IN  /\ runs' = [runs EXCEPT ![r] =
                      [run EXCEPT !.attempts = attempts,
                                  !.lastRadius = a.lastRadius,
                                  !.waypoints = a.waypoints,
                                  !.override = a.override,
                                  !.boundary = Effective(a.boundary)]]
        /\ inflight' = (inflight \ {ReqOf(r)})
                         \cup {Request(r, attempts, distanceMiles, a.waypoints)}
        /\ UNCHANGED <<locVars, routeVars, bndVars, dom>>

HttpErrorMessage_errorFirst(data) ==
  IF data.error # null THEN Val(data.error)
  ELSE IF data.details # null THEN Val(data.details)
  ELSE "Route generation failed"

\* The message of the Error thrown at line 402.
HttpErrorMessage(data) ==
  IF data.details # null THEN Val(data.details)
  ELSE IF data.error # null THEN Val(data.error)
  ELSE "Route generation failed"

\* Lines 399-423: the response res of the pending fetch of call r arrives
\* and the call goes on to its next await or to its end.
Receive(r, res, rnds) ==
  /\ runs[r].pc = "fetch"
  /\ LET req == ReqOf(r)
     IN  IF ~res.ok
         THEN /\ Fail(r, HttpErrorMessage(res.data))
              /\ inflight' = inflight \ {req}
              /\ UNCHANGED lastActualDistanceMeters
         ELSE IF res.routes = null \/ Len(Val(res.routes)) = 0
         THEN /\ Fail(r, NoRouteMessage)
              /\ inflight' = inflight \ {req}
              /\ UNCHANGED lastActualDistanceMeters
         ELSE LET routeData == Val(res.routes)[1]
              IN  /\ lastActualDistanceMeters' = Some(routeData.distanceMeters)
                  /\ IF breaks(Val(runs[r].distanceMiles), routeData.distanceMeters,
                               runs[r].attempts)
                     THEN /\ Succeed(r, routeData)
                          /\ inflight' = inflight \ {req}
                     ELSE \E rnd \in rnds : Retry(r, routeData, rnd)
  /\ UNCHANGED offPageVars

\* What /api/route can answer to the pending fetch of call r: an error, no
\* route, or a route whose length is one of factors times the target.
Respond(r, factors, rnds) ==
  /\ runs[r].pc = "fetch"
  /\ \/ \E res \in HttpErrorResponses : Receive(r, res, rnds)
     \/ \E res \in NoRouteResponses : Receive(r, res, rnds)
     \/ \E f \in factors :
          Receive(r, RouteResponse(r, RMul(targetMetersOf(ReqOf(r).distanceMiles), f)), rnds)

(***************************************************************************)
(* The other handlers of the page                                          *)
(***************************************************************************)
\* Lines 316-338.
setStartLocation(lat, lng) ==
  /\ startLocation' = Some(Pt(lat, lng))
  /\ dom' = [dom EXCEPT !.generate_disabled = FALSE]
  /\ UNCHANGED <<routeVars, bndVars, lastActualDistanceMeters, runs, inflight>>

\* Lines 608-649.
handleBoundaryClick(lat, lng) ==
  /\ boundaryVertices' = Append(boundaryVertices, Pt(lat, lng))
  /\ UNCHANGED <<boundaryMode, boundaryPolygon, locVars, routeVars,
                 lastActualDistanceMeters, dom, runs, inflight>>

\* Lines 241-248: a click on the map.
MapClick(starts) ==
  /\ IF boundaryMode
     THEN /\ Len(boundaryVertices) < MaxVertices
          /\ LET p == BoundaryPath[Len(boundaryVertices) + 1]
             IN  handleBoundaryClick(p.lat, p.lng)
     ELSE \E p \in starts : setStartLocation(p.lat, p.lng)
  /\ UNCHANGED offPageVars

\* Lines 268-276: a place is picked in the search box.
PlaceChanged(starts) ==
  /\ \E p \in starts : setStartLocation(p.lat, p.lng)
  /\ UNCHANGED offPageVars

cancelBoundaryDrawing_leavesDone ==
  /\ boundaryMode' = FALSE
  /\ boundaryVertices' = <<>>
  /\ dom' = dom
  /\ UNCHANGED boundaryPolygon

\* Lines 709-726.
cancelBoundaryDrawing ==
  /\ boundaryMode' = FALSE
  /\ boundaryVertices' = <<>>
  /\ dom' = [dom EXCEPT !.done_hidden = TRUE]
  /\ UNCHANGED boundaryPolygon

toggleBoundaryMode_keepsPolygon ==
  /\ IF boundaryMode
     THEN cancelBoundaryDrawing
     ELSE /\ boundaryMode' = TRUE
          /\ boundaryVertices' = <<>>
          /\ boundaryPolygon' = boundaryPolygon
          /\ dom' = [dom EXCEPT !.done_hidden = FALSE, !.clear_hidden = TRUE]
  /\ UNCHANGED <<locVars, routeVars, lastActualDistanceMeters, runs, inflight, offPageVars>>

\* Lines 588-606.
toggleBoundaryMode ==
  /\ IF boundaryMode
     THEN cancelBoundaryDrawing
     ELSE /\ boundaryMode' = TRUE
          /\ boundaryVertices' = <<>>
          /\ boundaryPolygon' = null
          /\ dom' = [dom EXCEPT !.done_hidden = FALSE, !.clear_hidden = TRUE]
  /\ UNCHANGED <<locVars, routeVars, lastActualDistanceMeters, runs, inflight, offPageVars>>

finishBoundary_fromTwoVertices ==
  /\ ~dom.done_hidden
  /\ IF Len(boundaryVertices) < 2
     THEN /\ dom' = [dom EXCEPT !.error = Some("Draw at least 3 points to create a boundary")]
          /\ UNCHANGED bndVars
     ELSE /\ boundaryPolygon' = Some(boundaryVertices)
          /\ boundaryMode' = FALSE
          /\ dom' = [dom EXCEPT !.error = null,
                                !.done_hidden = TRUE,
                                !.clear_hidden = FALSE]
          /\ UNCHANGED boundaryVertices
  /\ UNCHANGED <<locVars, routeVars, lastActualDistanceMeters, runs, inflight, offPageVars>>

\* Lines 670-707: the Done button, clickable while it is shown.
finishBoundary ==
  /\ ~dom.done_hidden
  /\ IF Len(boundaryVertices) < 3
     THEN /\ dom' = [dom EXCEPT !.error = Some("Draw at least 3 points to create a boundary")]
          /\ UNCHANGED bndVars
     ELSE /\ boundaryPolygon' = Some(boundaryVertices)
          /\ boundaryMode' = FALSE
          /\ dom' = [dom EXCEPT !.error = null,
                                !.done_hidden = TRUE,
                                !.clear_hidden = FALSE]
          /\ UNCHANGED boundaryVertices
  /\ UNCHANGED <<locVars, routeVars, lastActualDistanceMeters, runs, inflight, offPageVars>>

\* Lines 728-749: the Clear Boundary button, clickable while it is shown.
clearBoundary ==
  /\ ~dom.clear_hidden
  /\ boundaryVertices' = <<>>
  /\ boundaryMode' = FALSE
  /\ boundaryPolygon' = null
  /\ dom' = [dom EXCEPT !.done_hidden = TRUE, !.clear_hidden = TRUE]
  /\ UNCHANGED <<locVars, routeVars, lastActualDistanceMeters, runs, inflight, offPageVars>>

(***************************************************************************)
(* The page as a state machine                                             *)
(***************************************************************************)
\* Lines 158-172; the elements start as index.html declares them, the
\* buttons disabled and the panels hidden until a handler changes them.
\* error is null while the error element is hidden, else its text.
InitPage(slots) ==
  /\ startLocation = null
  /\ currentPolyline = null
  /\ lastDistanceMiles = null
  /\ lastActualDistanceMeters = null
  /\ lastWaypoints = <<>>
  /\ boundaryMode = FALSE
  /\ boundaryVertices = <<>>
  /\ boundaryPolygon = null
  /\ dom = [generate_disabled |-> TRUE, regenerate_disabled |-> TRUE,
            loading_hidden |-> TRUE, error |-> null, routeInfo_hidden |-> TRUE,
            link_hidden |-> TRUE, done_hidden |-> TRUE, clear_hidden |-> TRUE]
  /\ runs = [r \in slots |-> IdleRun]
  /\ inflight = {}

\* No request has reached the handler of POST /api/route yet.
IdleServer == [pc |-> "idle", req |-> null, calls |-> <<>>, res |-> null]

Init ==
  /\ InitPage({1})
  /\ gCall = null
  /\ gResult = null
  /\ server = IdleServer

Next ==
  \/ MapClick(StartClicks)
  \/ PlaceChanged(StartClicks)
  \/ ClickGenerate(DistanceInputs, PageRandom)
  \/ ClickRegenerate(DistanceInputs, PageRandom)
  \/ \E r \in DOMAIN runs : Respond(r, ObservedFactors, PageRandom)
  \/ toggleBoundaryMode
  \/ finishBoundary
  \/ clearBoundary

Spec == Init /\ [][Next]_vars

(***************************************************************************)
(* The pure functions, called directly.  gCall is the call made (null      *)
(* before it), gResult what it returned (null until it returns).           *)
(***************************************************************************)
\* The polygons of src/tests/route-generator.test.js, and a chevron whose
\* vertex centroid lies in its notch.
square == << Pt(I(0), I(0)), Pt(I(0), I(10)), Pt(I(10), I(10)), Pt(I(10), I(0)) >>

triangle == << Pt(I(0), I(0)), Pt(I(0), I(10)), Pt(I(10), I(5)) >>

lShape ==
  << Pt(I(0), I(0)), Pt(I(0), I(4)), Pt(I(2), I(4)), Pt(I(2), I(2)), Pt(I(4), I(2)),
     Pt(I(4), I(0)) >>

chevron == SubSeq(BoundaryPath, 1, 5)

GeoPolygons == {square, triangle, lShape, chevron}

GeoBoundaries ==
  {null, Some(<<>>), Some(SubSeq(square, 1, 2))} \cup {Some(p) : p \in GeoPolygons}

GeoStarts == {Pt(I(1), I(1)), Pt(I(1), I(3))}

GeoDistances == {<<1, 2>>, <<499, 100>>, I(5), <<1299, 100>>, I(13), I(50)}

GeoOverrides ==
  {null, Some([c |-> I(0), s |-> I(1)]), Some([c |-> I(5000), s |-> <<21, 20>>])}

GeoQueries == {Pt(I(a), I(b)) : a \in -1..5, b \in -1..5}

CallGenerateWaypoints ==
  /\ gCall = null
  /\ \E start \in GeoStarts, distanceMiles \in GeoDistances, radiusOverride \in GeoOverrides,
        boundary \in GeoBoundaries, rnd \in RandomOutcomes :
       gCall' = Some([fn |-> "generateWaypoints", startLat |-> start.lat,
                      startLng |-> start.lng, distanceMiles |-> distanceMiles,
                      radiusOverride |-> radiusOverride, boundary |-> boundary,
                      rnd |-> rnd])
  /\ UNCHANGED <<gResult, pageVars, server>>

CallNearestPointOnPolygon ==
  /\ gCall = null
  /\ \E q \in GeoQueries, polygon \in GeoPolygons :
       gCall' = Some([fn |-> "nearestPointOnPolygon", lat |-> q.lat, lng |-> q.lng,
                      polygon |-> polygon])
  /\ UNCHANGED <<gResult, pageVars, server>>

\* Ends of the segments projectToSegment is called with.
SegmentEnds == {Pt(I(0), I(0)), Pt(I(0), I(4)), Pt(I(4), I(4)), Pt(I(1), I(2))}

\* Query points of pointInPolygon: a grid of half units from -1 to 5.
HalfGrid == {Pt(Norm(a, 2), Norm(b, 2)) : a \in -2..10, b \in -2..10}

CallProjectToSegment ==
  /\ gCall = null
  /\ \E q \in GeoQueries, a \in SegmentEnds, b \in SegmentEnds :
       gCall' = Some([fn |-> "projectToSegment", lat |-> q.lat, lng |-> q.lng,
                      a |-> a, b |-> b])
  /\ UNCHANGED <<gResult, pageVars, server>>

CallPointInPolygon ==
  /\ gCall = null
  /\ \E q \in HalfGrid, polygon \in GeoPolygons :
       gCall' = Some([fn |-> "pointInPolygon", lat |-> q.lat, lng |-> q.lng,
                      polygon |-> polygon])
  /\ UNCHANGED <<gResult, pageVars, server>>

Return ==
  /\ gCall # null
  /\ gResult = null
  /\ LET c == Val(gCall)
     IN  gResult' =
           IF c.fn = "generateWaypoints"
           THEN Some(generateWaypoints(c.startLat, c.startLng, c.distanceMiles,
                                       c.radiusOverride, c.boundary, c.rnd))
           ELSE IF c.fn = "nearestPointOnPolygon"
           THEN Some(nearestPointOnPolygon(c.lat, c.lng, c.polygon))
           ELSE IF c.fn = "projectToSegment"
           THEN Some(projectToSegment(c.lat, c.lng, c.a, c.b))
           ELSE Some(pointInPolygon(c.lat, c.lng, c.polygon))
  /\ UNCHANGED <<gCall, pageVars, server>>

NextGeo ==
  \/ CallGenerateWaypoints
  \/ CallNearestPointOnPolygon
  \/ CallProjectToSegment
  \/ CallPointInPolygon
  \/ Return

SpecGeo == Init /\ [][NextGeo]_vars

(***************************************************************************)
(* Overlapping calls.  setStartLocation enables the Generate button also   *)
(* while a call awaits its response (line 337), so a second click starts a *)
(* second computeRoute call before the first has ended.  Two calls are     *)
(* followed here, with the start, the buttons and the responses as their   *)
(* only events.                                                            *)
(***************************************************************************)
OverlapInputs == {Some(I(5))}

\* 4% short, on target, 11% long.
OverlapFactors == {<<24, 25>>, I(1), <<111, 100>>}

InitOverlap ==
  /\ InitPage({1, 2})
  /\ gCall = null
  /\ gResult = null
  /\ server = IdleServer

NextOverlap ==
  \/ MapClick(StartClicks)
  \/ PlaceChanged(StartClicks)
  \/ ClickGenerate(OverlapInputs, PageRandom)
  \/ ClickRegenerate(OverlapInputs, PageRandom)
  \/ \E r \in DOMAIN runs : Respond(r, OverlapFactors, PageRandom)

SpecOverlap == InitOverlap /\ [][NextOverlap]_vars

(***************************************************************************)
(* The distance input between a route and the Regenerate click.  One call  *)
(* at a time, the input holding one of two accepted distances or an        *)
(* unparsable text at each click.                                          *)
(***************************************************************************)
RegenerateInputs == {null, Some(I(3)), Some(I(5))}

\* On target, 11% long.
RegenerateFactors == {I(1), <<111, 100>>}

NextRegenerate ==
  \/ MapClick(StartClicks)
  \/ PlaceChanged(StartClicks)
  \/ ClickRegenerate(RegenerateInputs, PageRandom)
  \/ ClickGenerate(RegenerateInputs, PageRandom)
  \/ \E r \in DOMAIN runs : Respond(r, RegenerateFactors, PageRandom)

SpecRegenerate == Init /\ [][NextRegenerate]_vars

(***************************************************************************)
(* computeRoute called as a function, whatever the state of the buttons:   *)
(* the call the guard of line 352 is written for.  One call at a time.     *)
(***************************************************************************)
CallComputeRoute ==
  \E isRegenerate \in BOOLEAN, value \in DistanceInputs :
    computeRoute(isRegenerate, value, PageRandom)

NextDirect ==
  \/ MapClick(StartClicks)
  \/ PlaceChanged(StartClicks)
  \/ CallComputeRoute
  \/ \E r \in DOMAIN runs : Respond(r, ObservedFactors, PageRandom)

SpecDirect == Init /\ [][NextDirect]_vars


(***************************************************************************)
(* The start moved during a call.  The map click listener and the search   *)
(* box stay live while computeRoute awaits a response, and setStartLocation *)
(* replaces startLocation at once.  One call at a time, two places to      *)
(* pick, no boundary.                                                      *)
(***************************************************************************)
MoveClicks == {Pt(I(1), I(3)), Pt(I(2), I(2))}

NextMove ==
  \/ MapClick(MoveClicks)
  \/ PlaceChanged(MoveClicks)
  \/ ClickGenerate(OverlapInputs, PageRandom)
  \/ ClickRegenerate(OverlapInputs, PageRandom)
  \/ \E r \in DOMAIN runs : Respond(r, OverlapFactors, PageRandom)

SpecMove == Init /\ [][NextMove]_vars

(***************************************************************************)
(* The boundary editor alone, with its vertex markers.  A marker is on the *)
(* map for each vertex of the drawing in progress: handleBoundaryClick     *)
(* adds one per vertex, and finishBoundary, cancelBoundaryDrawing and      *)
(* clearBoundary remove them all, so marker index can be dragged exactly   *)
(* while boundaryMode is true and the vertex exists.                       *)
(***************************************************************************)
\* Where a dragged marker is dropped.
DragTargets == {Pt(I(2), I(3)), Pt(I(-1), I(1))}

\* Lines 632-643: the drag and dragend listeners of the marker of vertex
\* index (counted from 1 here).
dragVertex(index, lat, lng) ==
  /\ boundaryMode
  /\ index \in 1..Len(boundaryVertices)
  /\ boundaryVertices' = [boundaryVertices EXCEPT ![index] = Pt(lat, lng)]
  /\ UNCHANGED <<boundaryMode, boundaryPolygon, locVars, routeVars,
                 lastActualDistanceMeters, dom, runs, inflight, offPageVars>>

NextBoundary ==
  \/ MapClick(StartClicks)
  \/ toggleBoundaryMode
  \/ \E index \in 1..MaxVertices, p \in DragTargets : dragVertex(index, p.lat, p.lng)
  \/ finishBoundary
  \/ clearBoundary

SpecBoundary == Init /\ [][NextBoundary]_vars
(***************************************************************************)
(* The page of app.js.  Its computeRoute (lines 180-254) differs           *)
(* from the one above in the attempt budget, the retry radius and the      *)
(* tolerance, and it keeps no lastWaypoints and no maps link.              *)
(***************************************************************************)
\* Line 199.
app_maxAttempts == 3

\* Lines 209-212: the radius of a retry.
app_adjustedRadius(distanceMiles, lastRadius, lastActual) ==
  LET targetMeters == targetMetersOf(distanceMiles)
      ratio == RDiv(targetMeters, lastActual)
      baseRadius == [c |-> RDiv(targetMetersOf(distanceMiles), <<13, 10>>), s |-> I(1)]
      from == IF FalsyRadius(lastRadius) THEN baseRadius ELSE Val(lastRadius)
  IN  [c |-> from.c, s |-> RMul(from.s, ratio)]

\* Lines 236-237: Math.abs(lastActualDistanceMeters - targetMeters) / targetMeters
app_pctDiff(distanceMiles, actual) ==
  LET targetMeters == targetMetersOf(distanceMiles)
      diff == RSub(actual, targetMeters)
  IN  RDiv(<<Abs(diff[1]), diff[2]>>, targetMeters)

app_breaks_strict(distanceMiles, actual, attempts) ==
  \/ RLt(app_pctDiff(distanceMiles, actual), <<1, 10>>)
  \/ attempts >= 3

\* Line 239: the loop is left.
app_breaks(distanceMiles, actual, attempts) ==
  \/ RLe(app_pctDiff(distanceMiles, actual), <<1, 10>>)
  \/ attempts >= app_maxAttempts

\* Lines 205-215: the waypoints of one attempt.
app_attempt(attempts, distanceMiles, lastRadius, lastActual, rnd) ==
  LET fresh == attempts = 1 \/ FalsyNumber(lastActual)
      override == IF fresh
                  THEN null
                  ELSE Some(app_adjustedRadius(distanceMiles, lastRadius, Val(lastActual)))
  IN  [override |-> override,
       lastRadius |-> IF fresh THEN lastRadius ELSE override,
       boundary |-> boundaryVertices,
       waypoints |-> generateWaypoints(Val(startLocation).lat, Val(startLocation).lng,
                                       distanceMiles, override, Some(boundaryVertices), rnd)]

\* Lines 180-221: from the click to the first fetch.
app_computeRoute(isRegenerate, value, rnds) ==
  /\ FreeRuns # {}
  /\ IF startLocation = null
     THEN UNCHANGED pageVars
     ELSE IF InvalidDistance(value)
     THEN /\ dom' = [dom EXCEPT !.error = Some(DistanceMessage)]
          /\ UNCHANGED <<locVars, routeVars, bndVars, lastActualDistanceMeters, runs,
                         inflight>>
     ELSE \E rnd \in rnds :
          \E a \in {app_attempt(1, Val(value), null, lastActualDistanceMeters, rnd)} :
            LET r == NewRun
                distanceMiles == Val(value)
            IN  /\ dom' = [dom EXCEPT !.loading_hidden = FALSE,
                                      !.error = null,
                                      !.routeInfo_hidden = TRUE,
                                      !.generate_disabled = TRUE,
                                      !.regenerate_disabled = TRUE]
                /\ runs' = [runs EXCEPT ![r] =
                              [pc |-> "fetch", distanceMiles |-> Some(distanceMiles),
                               attempts |-> 1, lastRadius |-> a.lastRadius,
                               waypoints |-> a.waypoints, override |-> a.override,
                               boundary |-> Effective(a.boundary)]]
                /\ inflight' = inflight \cup {Request(r, 1, distanceMiles, a.waypoints)}
                /\ UNCHANGED <<locVars, routeVars, bndVars, lastActualDistanceMeters>>
  /\ UNCHANGED offPageVars

\* Lines 135-136: the buttons.
app_ClickGenerate(values, rnds) ==
  /\ ~dom.generate_disabled
  /\ \E value \in values : app_computeRoute(FALSE, value, rnds)

app_ClickRegenerate(values, rnds) ==
  /\ ~dom.regenerate_disabled
  /\ \E value \in values : app_computeRoute(TRUE, value, rnds)

\* Lines 244-247 and 250-253: the route is drawn and the call ends.
app_Succeed(r, routeData) ==
  /\ lastDistanceMiles' = runs[r].distanceMiles
  /\ currentPolyline' = Some(routeData.polyline)
  /\ dom' = [dom EXCEPT !.routeInfo_hidden = FALSE,
                        !.regenerate_disabled = FALSE,
                        !.loading_hidden = TRUE,
                        !.generate_disabled = (startLocation = null)]
  /\ runs' = [runs EXCEPT ![r] = IdleRun]
  /\ UNCHANGED <<locVars, bndVars, lastWaypoints>>

\* Lines 202-221, entered again: the next attempt and its fetch.
app_Retry(r, routeData, rnd) ==
  \E a \in {app_attempt(runs[r].attempts + 1, Val(runs[r].distanceMiles),
                         runs[r].lastRadius, Some(routeData.distanceMeters), rnd)} :
    LET run == runs[r]
        distanceMiles == Val(run.distanceMiles)
        attempts == run.attempts + 1
    IN  /\ runs' = [runs EXCEPT ![r] =
                      [run EXCEPT !.attempts = attempts,
                                  !.lastRadius = a.lastRadius,
                                  !.waypoints = a.waypoints,
                                  !.override = a.override,
                                  !.boundary = Effective(a.boundary)]]
        /\ inflight' = (inflight \ {ReqOf(r)})
                         \cup {Request(r, attempts, distanceMiles, a.waypoints)}
        /\ UNCHANGED <<locVars, routeVars, bndVars, dom>>

\* Lines 223-242: the response res of the pending fetch of call r arrives.
\* The catch and finally blocks (lines 248-253) are those of Fail.
app_Receive(r, res, rnds) ==
  /\ runs[r].pc = "fetch"
  /\ LET req == ReqOf(r)
     IN  IF ~res.ok
         THEN /\ Fail(r, HttpErrorMessage(res.data))
              /\ inflight' = inflight \ {req}
              /\ UNCHANGED lastActualDistanceMeters
         ELSE IF res.routes = null \/ Len(Val(res.routes)) = 0
         THEN /\ Fail(r, NoRouteMessage)
              /\ inflight' = inflight \ {req}
              /\ UNCHANGED lastActualDistanceMeters
         ELSE LET routeData == Val(res.routes)[1]
              IN  /\ lastActualDistanceMeters' = Some(routeData.distanceMeters)
                  /\ IF app_breaks(Val(runs[r].distanceMiles), routeData.distanceMeters,
                                   runs[r].attempts)
                     THEN /\ app_Succeed(r, routeData)
                          /\ inflight' = inflight \ {req}
                     ELSE \E rnd \in rnds : app_Retry(r, routeData, rnd)
  /\ UNCHANGED offPageVars

app_Respond(r, factors, rnds) ==
  /\ runs[r].pc = "fetch"
  /\ \/ \E res \in HttpErrorResponses : app_Receive(r, res, rnds)
     \/ \E res \in NoRouteResponses : app_Receive(r, res, rnds)
     \/ \E f \in factors :
          app_Receive(r, RouteResponse(r, RMul(targetMetersOf(ReqOf(r).distanceMiles), f)),
                      rnds)

\* distanceMeters of a returned route, as a multiple of the target: 0, 11%
\* short, the symmetric band's two edges, 4% short, 11% long.
AppFactors == {I(0), <<89, 100>>, <<9, 10>>, <<24, 25>>, <<11, 10>>, <<111, 100>>}

NextApp ==
  \/ MapClick(StartClicks)
  \/ PlaceChanged(StartClicks)
  \/ app_ClickGenerate(DistanceInputs, PageRandom)
  \/ app_ClickRegenerate(DistanceInputs, PageRandom)
  \/ \E r \in DOMAIN runs : app_Respond(r, AppFactors, PageRandom)
  \/ toggleBoundaryMode
  \/ finishBoundary
  \/ clearBoundary

SpecApp == Init /\ [][NextApp]_vars

(***************************************************************************)
(* POST /api/route (src/api/route.js).  A JavaScript value of the request  *)
(* body is a record: t is its type, s the text of a string, lat and lng    *)
(* the properties of an object (null when undefined), items the elements   *)
(* of an array.                                                            *)
(***************************************************************************)
Js(t, s, lat, lng, items) == [t |-> t, s |-> s, lat |-> lat, lng |-> lng, items |-> items]

Undefined == Js("undefined", "", null, null, <<>>)

JsNull == Js("null", "", null, null, <<>>)

Str(s) == Js("string", s, null, null, <<>>)

Obj(lat, lng) == Js("object", "", lat, lng, <<>>)

Arr(items) == Js("array", "", null, null, items)

\* !v is false
Truthy(v) == v.t \notin {"undefined", "null"} /\ ~(v.t = "string" /\ v.s = "")

Nullish(v) == v.t \in {"undefined", "null"}

\* Line 13.
Rejected_withoutArrayCheck(origin, waypoints) == ~Truthy(origin) \/ ~Truthy(waypoints)

Rejected(origin, waypoints) ==
  ~Truthy(origin) \/ ~Truthy(waypoints) \/ waypoints.t # "array"

LatLng_swapped(p) == [location |-> [latLng |-> [latitude |-> p.lng, longitude |-> p.lat]]]

\* Lines 18-22, 23-27, 29-31: { location: { latLng: { latitude, longitude } } }
LatLng(p) == [location |-> [latLng |-> [latitude |-> p.lat, longitude |-> p.lng]]]

\* Lines 17-36.
RouteBody(origin, waypoints) ==
  [origin |-> LatLng(origin),
   destination |-> LatLng(origin),
   intermediates |-> [k \in DOMAIN waypoints.items |-> LatLng(waypoints.items[k])],
   travelMode |-> "WALK",
   units |-> "IMPERIAL",
   languageCode |-> "en-US"]

\* res.status(status).json(...)
Reply(status, error, details, data) ==
  [status |-> status, error |-> error, details |-> details, data |-> data]

\* Longest waypoints array of a request.
MaxWaypoints == 2

ServerMethods == {"POST", "GET"}

\* process.env.GOOGLE_MAPS_API_KEY: unset, set.
ServerKeys == {null, Some("key")}

ServerOrigins == {Undefined, JsNull, Obj(Some(40), Some(-74)), Obj(Some(33), null)}

ServerItems == {Obj(Some(41), Some(-73)), Obj(Some(42), Some(-72)), JsNull}

ServerWaypoints ==
  {Undefined, Str(""), Str("not-an-array")}
    \cup {Arr(items) : items \in UNION {[1..n -> ServerItems] : n \in 0..MaxWaypoints}}

\* What the routing provider answers: a route, an error status, no answer.
ProviderAnswers ==
  {[ok |-> TRUE, status |-> 200, message |-> null, fails |-> FALSE],
   [ok |-> FALSE, status |-> 403, message |-> Some("API key not valid"), fails |-> FALSE],
   [ok |-> FALSE, status |-> 400, message |-> null, fails |-> FALSE],
   [ok |-> FALSE, status |-> 0, message |-> null, fails |-> TRUE]}

\* Lines 1-47: a request arrives and is handled up to the reply or to the
\* call of the provider.  Reading wp.lat of a null element throws at line
\* 30, outside the try block.
handler(method, apiKey, origin, waypoints) ==
  /\ server.pc # "fetch"
  /\ LET req == [method |-> method, apiKey |-> apiKey, origin |-> origin,
                 waypoints |-> waypoints]
         replied(res) == [pc |-> "done", req |-> Some(req), calls |-> <<>>,
                          res |-> Some(res)]
     IN  server' =
           IF method # "POST"
           THEN replied(Reply(405, Some("Method not allowed"), null, null))
           ELSE IF apiKey = null
           THEN replied(Reply(500, Some("Server misconfiguration: API key not set"),
                              null, null))
           ELSE IF Rejected(origin, waypoints)
           THEN replied(Reply(400, Some("origin and waypoints array are required"),
                              null, null))
           ELSE IF \E k \in DOMAIN waypoints.items : Nullish(waypoints.items[k])
           THEN [pc |-> "threw", req |-> Some(req), calls |-> <<>>, res |-> null]
           ELSE [pc |-> "fetch", req |-> Some(req),
                 calls |-> <<RouteBody(origin, waypoints)>>, res |-> null]
  /\ UNCHANGED <<pageVars, geoVars>>

\* Lines 49-63: the provider's answer arrives.
providerAnswers(answer) ==
  /\ server.pc = "fetch"
  /\ server' =
       [server EXCEPT
          !.pc = "done",
          !.res =
            IF answer.fails
            THEN Some(Reply(500, Some("Failed to compute route"), null, null))
            ELSE IF ~answer.ok
            THEN Some(Reply(answer.status, Some("Routes API error"),
                            IF answer.message # null THEN answer.message
                            ELSE Some("JSON.stringify(data)"), null))
            ELSE Some(Reply(200, null, null, Some("data")))]
  /\ UNCHANGED <<pageVars, geoVars>>

NextServer ==
  \/ \E method \in ServerMethods, apiKey \in ServerKeys, origin \in ServerOrigins,
        waypoints \in ServerWaypoints : handler(method, apiKey, origin, waypoints)
  \/ \E answer \in ProviderAnswers : providerAnswers(answer)

SpecServer == Init /\ [][NextServer]_vars

(***************************************************************************)
(* generateWaypoints, adjustWaypoints and the maps link, called directly   *)
(* and followed through their bodies.  For a generateWaypoints call        *)
(* gResult holds the locals of the call when it returns: radius,           *)
(* randomOffset, and for each waypoint its angle, its perturbedRadius, the *)
(* point computed from them, whether nearestPointOnPolygon was called for  *)
(* it, and the point pushed (waypoints, the value returned).  Angles are   *)
(* in turns (units of 2*pi), so that 2*pi*i/count is i/count; the polar    *)
(* displacement (perturbedRadius, angle) of lines 100-104 is exact, the    *)
(* points in degrees are those of the grid of placeWaypoints.              *)
(***************************************************************************)
\* Lines 100-102: angle and perturbedRadius of waypoint i (from 0), jitter
\* being the outcome of the Math.random() call of its iteration.
polarOf_sharedJitter(r, count, rnd, i) ==
  [angle |-> RAdd(Norm(rnd.offset, SECTORS), Norm(i, count)),
   perturbedRadius |->
     [c |-> RMul(r.c, RAdd(<<17, 20>>, RMul(rnd.jitter[1], <<3, 10>>))), s |-> r.s]]

polarOf(r, count, rnd, i) ==
  [angle |-> RAdd(Norm(rnd.offset, SECTORS), Norm(i, count)),
   perturbedRadius |->
     [c |-> RMul(r.c, RAdd(<<17, 20>>, RMul(rnd.jitter[i + 1], <<3, 10>>))), s |-> r.s]]

\* Lines 104-110: the point computed for waypoint i (from 0).
computedPoint(startLat, startLng, count, rnd, i) ==
  LET angle == rnd.offset + (SECTORS * i) \div count
  IN  Pt(RAdd(startLat, Polar(angle).dLat), RAdd(startLng, Polar(angle).dLng))

callsNearest_whenActive(lat, lng, boundary) ==
  boundary # null /\ Len(Val(boundary)) >= 3

\* Lines 113-115: whether nearestPointOnPolygon is called for a computed
\* point.
callsNearest(lat, lng, boundary) ==
  boundary # null /\ Len(Val(boundary)) >= 3 /\ ~pointInPolygon(lat, lng, Val(boundary))

\* Lines 91-125: the locals of one call.
locals(startLat, startLng, distanceMiles, radiusOverride, boundary, rnd) ==
  LET count == getWaypointCount(distanceMiles)
      r == radius(distanceMiles, radiusOverride)
      at(k) == computedPoint(startLat, startLng, count, rnd, k - 1)
  IN  [count |-> count,
       radius |-> r,
       randomOffset |-> Norm(rnd.offset, SECTORS),
       polar |-> [k \in 1..count |-> polarOf(r, count, rnd, k - 1)],
       computed |-> [k \in 1..count |-> at(k)],
       nearestCalled |-> [k \in 1..count |-> callsNearest(at(k).lat, at(k).lng, boundary)],
       waypoints |-> generateWaypoints(startLat, startLng, distanceMiles, radiusOverride,
                                       boundary, [offset |-> rnd.offset])]

adjustedRadiusOf_linear(distanceMiles, actualDistanceMeters) ==
  LET targetMeters == RMul(distanceMiles, METERS_PER_MILE)
      ratio == RDiv(targetMeters, actualDistanceMeters)
  IN  [c |-> RMul(RDiv(targetMeters, ROAD_WINDING_FACTOR), ratio), s |-> I(1)]

\* Lines 132-137: currentRadius * Math.sqrt(ratio).
adjustedRadiusOf(distanceMiles, actualDistanceMeters) ==
  LET targetMeters == RMul(distanceMiles, METERS_PER_MILE)
      currentCircumference == RMul(distanceMiles, METERS_PER_MILE)
      currentRadius == [c |-> RDiv(currentCircumference, ROAD_WINDING_FACTOR), s |-> I(1)]
      ratio == RDiv(targetMeters, actualDistanceMeters)
  IN  [c |-> currentRadius.c, s |-> RMul(currentRadius.s, ratio)]

\* Lines 131-140: the locals of the generateWaypoints call it makes.
adjustWaypoints(startLat, startLng, distanceMiles, actualDistanceMeters, boundary, rnd) ==
  locals(startLat, startLng, distanceMiles,
         Some(adjustedRadiusOf(distanceMiles, actualDistanceMeters)), boundary, rnd)

\* p.lat.toFixed(6), p.lng.toFixed(6): the nearest multiple of 0.000001,
\* a tie going away from zero.
toFixed6(x) ==
  LET scaled == RMul(<<Abs(x[1]), x[2]>>, I(1000000))
      n == (2 * scaled[1] + scaled[2]) \div (2 * scaled[2])
  IN  Norm(IF x[1] < 0 THEN -n ELSE n, 1000000)

buildGoogleMapsUrl_open(start, waypoints) ==
  IF start = null \/ Len(waypoints) = 0 THEN null
  ELSE LET points == <<Val(start)>> \o waypoints
       IN  Some([k \in DOMAIN points |-> Pt(toFixed6(points[k].lat), toFixed6(points[k].lng))])

\* Lines 497-515 (and buildGoogleMapsUrl of src/tests/directions.test.js):
\* null when the link is hidden, else the points of the path of its href.
buildGoogleMapsUrl(start, waypoints) ==
  IF start = null \/ Len(waypoints) = 0 THEN null
  ELSE LET points == <<Val(start)>> \o waypoints \o <<Val(start)>>
       IN  Some([k \in DOMAIN points |-> Pt(toFixed6(points[k].lat), toFixed6(points[k].lng))])

\* Outcomes of Math.random(): its least value, and one close to 1.
Draws == {I(0), <<99, 100>>}

CallDistances == {I(3), I(5)}

\* No override, 0, and two positive radii r: 2*pi*r = 5000 and 2*pi*r =
\* 5000 * sqrt(1.05).
CallOverrides ==
  {null, Some([c |-> I(0), s |-> I(1)]), Some([c |-> I(5000), s |-> I(1)]),
   Some([c |-> I(5000), s |-> <<21, 20>>])}

CallBoundaries == {null, Some(SubSeq(square, 1, 2)), Some(lShape), Some(chevron)}

\* Observed distances as multiples of the target: half, 4% short, equal,
\* 11% long, double.
CallActuals == {<<1, 2>>, <<24, 25>>, I(1), <<111, 100>>, I(2)}

\* The outcomes of one call: randomOffset as a sector (0 and 75 degrees) and
\* the draw of each iteration.
CallRandom(distanceMiles) ==
  [offset : {0, 5}, jitter : [1..getWaypointCount(distanceMiles) -> Draws]]

\* Start locations and waypoint lists of the link: none, those of the
\* tests, points that toFixed(6) rounds, and the waypoints of a call for 5
\* miles from (1, 3) within the L-shape.
LinkStarts ==
  {null, Some(Pt(I(40), I(-74))), Some(Pt(I(1), I(3))),
   Some(Pt(<<407128123, 10000000>>, <<-37003, 500>>))}

LinkWaypoints ==
  { <<>>,
    << Pt(<<1018, 25>>, <<-7399, 100>>) >>,
    << Pt(I(41), I(-73)), Pt(I(42), I(-72)), Pt(I(43), I(-71)) >>,
    << Pt(<<1, 3>>, <<-2, 3>>), Pt(<<1, 2000000>>, <<-1, 2000000>>), Pt(I(41), I(-73)) >>,
    generateWaypoints(I(1), I(3), I(5), null, Some(lShape), [offset |-> 0]) }

CallLoop ==
  /\ gCall = null
  /\ \E distanceMiles \in CallDistances, radiusOverride \in CallOverrides,
        boundary \in CallBoundaries :
       \E rnd \in CallRandom(distanceMiles) :
         gCall' = Some([fn |-> "generateWaypoints", startLat |-> I(1), startLng |-> I(3),
                        distanceMiles |-> distanceMiles, radiusOverride |-> radiusOverride,
                        boundary |-> boundary, rnd |-> rnd])
  /\ UNCHANGED <<gResult, pageVars, server>>

CallAdjustWaypoints ==
  /\ gCall = null
  /\ \E distanceMiles \in CallDistances, f \in CallActuals, boundary \in {null, Some(lShape)} :
       \E rnd \in CallRandom(distanceMiles) :
         gCall' = Some([fn |-> "adjustWaypoints", startLat |-> I(1), startLng |-> I(3),
                        distanceMiles |-> distanceMiles,
                        actualDistanceMeters |-> RMul(targetMetersOf(distanceMiles), f),
                        boundary |-> boundary, rnd |-> rnd])
  /\ UNCHANGED <<gResult, pageVars, server>>

CallBuildGoogleMapsUrl ==
  /\ gCall = null
  /\ \E start \in LinkStarts, waypoints \in LinkWaypoints :
       gCall' = Some([fn |-> "buildGoogleMapsUrl", startLocation |-> start,
                      waypoints |-> waypoints])
  /\ UNCHANGED <<gResult, pageVars, server>>

ReturnLocals ==
  /\ gCall # null
  /\ gResult = null
  /\ LET c == Val(gCall)
     IN  gResult' =
           IF c.fn = "generateWaypoints"
           THEN Some(locals(c.startLat, c.startLng, c.distanceMiles, c.radiusOverride,
                            c.boundary, c.rnd))
           ELSE IF c.fn = "adjustWaypoints"
           THEN Some(adjustWaypoints(c.startLat, c.startLng, c.distanceMiles,
                                     c.actualDistanceMeters, c.boundary, c.rnd))
           ELSE Some(buildGoogleMapsUrl(c.startLocation, c.waypoints))
  /\ UNCHANGED <<gCall, pageVars, server>>

NextCalls ==
  \/ CallLoop
  \/ CallAdjustWaypoints
  \/ CallBuildGoogleMapsUrl
  \/ ReturnLocals

SpecCalls == Init /\ [][NextCalls]_vars

\* Every pending fetch gets its response: the network answers or times out.
FairSpec ==
  Spec /\ WF_vars(\E r \in DOMAIN runs : Respond(r, ObservedFactors, PageRandom))

(***************************************************************************)
(* Properties of the pure functions (SpecGeo)                              *)
(***************************************************************************)
Returned(fn) == gCall # null /\ gResult # null /\ Val(gCall).fn = fn

AllInside(points, polygon) ==
  \A k \in DOMAIN points : pointInPolygon(points[k].lat, points[k].lng, polygon)

\* C1: whenever generateWaypoints is given a boundary of at least 3
\* vertices, every point it returns satisfies pointInPolygon against it.
C1_WaypointsInsideBoundary ==
  (/\ Returned("generateWaypoints")
   /\ Val(gCall).boundary # null
   /\ Len(Val(Val(gCall).boundary)) >= 3)
    => AllInside(Val(gResult), Val(Val(gCall).boundary))

\* C2: for a query point that fails pointInPolygon, the point returned by
\* nearestPointOnPolygon satisfies pointInPolygon against the same polygon.
C2_NearestPointInside ==
  (/\ Returned("nearestPointOnPolygon")
   /\ ~pointInPolygon(Val(gCall).lat, Val(gCall).lng, Val(gCall).polygon))
    => pointInPolygon(Val(gResult).lat, Val(gResult).lng, Val(gCall).polygon)

\* C3: generateWaypoints returns 4 points for a distance below 5, 6 for a
\* distance from 5 up to but not including 13, 8 from 13 on, whatever the
\* radius override and the boundary are.
C3_CountByDistance ==
  Returned("generateWaypoints") =>
    Len(Val(gResult)) =
      IF RLt(Val(gCall).distanceMiles, I(5)) THEN 4
      ELSE IF RLt(Val(gCall).distanceMiles, I(13)) THEN 6
      ELSE 8

\* A call at the band edge 5.0 with a radius override and a concave
\* boundary has returned 6 points.
C3_Witness ==
  /\ Returned("generateWaypoints")
  /\ Val(gCall).distanceMiles = I(5)
  /\ Val(gCall).radiusOverride = Some([c |-> I(5000), s |-> <<21, 20>>])
  /\ Val(gCall).boundary = Some(lShape)
  /\ Len(Val(gResult)) = 6

(***************************************************************************)
(* Properties of the refinement loop (Spec, FairSpec).  The steps of call  *)
(* 1 are named by the response they receive.                               *)
(***************************************************************************)
Target == targetMetersOf(Val(runs[1].distanceMiles))

\* Call 1 receives a route whose length is f times its target.
ReceivesRoute(f) == Receive(1, RouteResponse(1, RMul(Target, f)), PageRandom)

\* -0.03 <= (observed - target) / target <= 0.10 for observed = f * target.
InBand(f) == RGe(RSub(f, I(1)), <<-3, 100>>) /\ RLe(RSub(f, I(1)), <<1, 10>>)

\* Call 1 ends with the route of its attempt k drawn.
Accepted(k) ==
  /\ runs'[1].pc = "idle"
  /\ inflight' = {}
  /\ currentPolyline' = Some(<<1, k>>)
  /\ ~dom'.routeInfo_hidden
  /\ ~dom'.regenerate_disabled

\* Call 1 goes on to attempt k + 1 and its fetch.
AnotherAttempt(k) ==
  /\ runs'[1].pc = "fetch"
  /\ runs'[1].attempts = k + 1
  /\ {req.attempts : req \in inflight'} = {k + 1}
  /\ currentPolyline' = currentPolyline

\* C4: an attempt k < 4 that observes a route is accepted if and only if
\* -0.03 <= (observed - target)/target <= 0.10, both bounds inclusive, and
\* is followed by another attempt otherwise.
C4_AcceptedIffInBand ==
  [][\A f \in ObservedFactors :
       (runs[1].pc = "fetch" /\ runs[1].attempts < 4 /\ ReceivesRoute(f)) =>
         /\ InBand(f) => Accepted(runs[1].attempts)
         /\ ~InBand(f) => AnotherAttempt(runs[1].attempts)]_vars

\* A first attempt that observed exactly 3% below the target was accepted:
\* the route of attempt 1 is drawn and the last observed distance is the
\* lower band edge.
C4_Witness ==
  /\ runs[1].pc = "idle"
  /\ lastDistanceMiles = Some(I(5))
  /\ lastActualDistanceMeters = Some(RMul(targetMetersOf(I(5)), <<97, 100>>))
  /\ currentPolyline = Some(<<1, 1>>)
  /\ ~dom.routeInfo_hidden

\* C5: a call makes at most 4 routing requests, and once it has started it
\* ends, provided every request gets a response.
C5_AtMostFourRequests ==
  /\ [](runs[1].attempts <= 4)
  /\ [](\A req \in inflight : req.attempts <= 4)
  /\ (runs[1].pc = "fetch") ~> (runs[1].pc = "idle")

\* A call has ended with the route of its fourth request.
C5_Witness ==
  /\ runs[1].pc = "idle"
  /\ inflight = {}
  /\ currentPolyline = Some(<<1, 4>>)

\* C6: a route outside the band observed by attempt 4 ends the call with
\* that route drawn, the route panel shown, Regenerate enabled and no error
\* shown by the call (the error element is left as it was, and holds at
\* most the message finishBoundary showed meanwhile); whenever a call ends
\* on a route, the route drawn is the one its last attempt received.
C6_LastAttemptAccepted ==
  [][\A f \in ObservedFactors :
       (runs[1].pc = "fetch" /\ ReceivesRoute(f)) =>
         /\ (runs[1].attempts = 4 /\ ~InBand(f)) =>
              /\ Accepted(4)
              /\ dom'.error = dom.error
              /\ dom'.error \in {null, Some("Draw at least 3 points to create a boundary")}
              /\ dom'.loading_hidden
              /\ lastActualDistanceMeters' = Some(RMul(Target, f))
         /\ runs'[1].pc = "idle" =>
              currentPolyline' = Some(<<1, runs[1].attempts>>)]_vars

\* The fourth attempt observed 11% above the target and its route is
\* drawn with no error shown and Regenerate enabled.
C6_Witness ==
  /\ runs[1].pc = "idle"
  /\ currentPolyline = Some(<<1, 4>>)
  /\ lastActualDistanceMeters = Some(RMul(targetMetersOf(I(5)), <<111, 100>>))
  /\ dom.error = null
  /\ ~dom.regenerate_disabled
  /\ ~dom.routeInfo_hidden

\* C7: a response without routes, on any attempt, ends the call at once
\* with the error 'No route found. Try a different starting location.': no
\* request is pending, no route is drawn, and nothing of the response is
\* recorded as an observed distance.
C7_NoRouteEndsRun ==
  [][\A res \in NoRouteResponses :
       (runs[1].pc = "fetch" /\ Receive(1, res, PageRandom)) =>
         /\ dom'.error = Some("No route found. Try a different starting location.")
         /\ runs'[1].pc = "idle"
         /\ inflight' = {}
         /\ currentPolyline' = currentPolyline
         /\ dom'.routeInfo_hidden
         /\ dom'.link_hidden
         /\ lastWaypoints' = lastWaypoints
         /\ lastActualDistanceMeters' = lastActualDistanceMeters]_vars

\* A call that had observed a distance and retried has ended on a response
\* without routes: the error is shown and no route has ever been drawn.
C7_Witness ==
  /\ runs[1].pc = "idle"
  /\ inflight = {}
  /\ dom.error = Some("No route found. Try a different starting location.")
  /\ lastActualDistanceMeters # null
  /\ currentPolyline = null

\* 2*pi*radius is c * sqrt(s): the order of two positive radii.
RadiusRatio(a, b) == RMul(RMul(RDiv(a.c, b.c), RDiv(a.c, b.c)), RDiv(a.s, b.s))

RadiusLt(a, b) == RLt(RadiusRatio(a, b), I(1))

RadiusEq(a, b) == RadiusRatio(a, b) = I(1)

\* C8: when attempt 1 observes more than 10% above the target, attempt 2
\* is generated with a radius strictly smaller than the radius attempt 1
\* used, target / (2 * pi * 1.3).
C8_SecondRadiusSmaller ==
  [][\A f \in ObservedFactors :
       (/\ runs[1].pc = "fetch"
        /\ runs[1].attempts = 1
        /\ RGt(f, <<11, 10>>)
        /\ ReceivesRoute(f)) =>
         /\ runs'[1].attempts = 2
         /\ runs'[1].override # null
         /\ RadiusLt(Val(runs'[1].override),
                     radius(Val(runs[1].distanceMiles), null))]_vars

\* C9: the radius passed by an attempt k > 1 is R * sqrt(1.05 * target /
\* observed(k-1)), R being the radius attempt k-1 passed, or the radius
\* generateWaypoints derives for attempt 1 if it passed none.
C9_RadiusFormula ==
  [][\A f \in ObservedFactors \ {I(0)} :
       (/\ runs[1].pc = "fetch"
        /\ ReceivesRoute(f)
        /\ runs'[1].pc = "fetch") =>
         LET R == IF runs[1].override # null
                  THEN Val(runs[1].override)
                  ELSE radius(Val(runs[1].distanceMiles), null)
             expected == [c |-> R.c, s |-> RMul(R.s, RDiv(<<21, 20>>, f))]
         IN  /\ runs'[1].override # null
             /\ RadiusEq(Val(runs'[1].override), expected)]_vars

\* C10: a call has at most one routing request pending, and the request of
\* attempt k + 1 appears only in the step that receives the response of
\* attempt k and records its distance.
C10_OneRequestInFlight ==
  /\ [](\A r \in DOMAIN runs : Cardinality({req \in inflight : req.run = r}) <= 1)
  /\ [][\A req \in inflight' \ inflight :
          req.attempts > 1 =>
            /\ \E old \in inflight \ inflight' :
                 old.run = req.run /\ old.attempts = req.attempts - 1
            /\ \E f \in ObservedFactors :
                 /\ ReceivesRoute(f)
                 /\ lastActualDistanceMeters' = Some(RMul(Target, f))]_vars

\* The request of attempt 2 is pending, alone, after the distance of
\* attempt 1 was recorded.
C10_Witness ==
  /\ runs[1].pc = "fetch"
  /\ {req.attempts : req \in inflight} = {2}
  /\ lastActualDistanceMeters = Some(RMul(targetMetersOf(I(5)), <<24, 25>>))

(***************************************************************************)
(* Properties of overlapping and successive calls                          *)
(***************************************************************************)
\* Call r goes from its attempt k - 1 to its attempt k in this step.
NextAttempt(r) ==
  /\ runs[r].pc = "fetch"
  /\ runs'[r].pc = "fetch"
  /\ runs'[r].attempts = runs[r].attempts + 1

\* The radiusOverride of a retry of call r that observed actual.
OverrideFrom(r, actual) ==
  IF FalsyNumber(actual)
  THEN null
  ELSE Some(adjustedRadius(Val(runs[r].distanceMiles), runs[r].lastRadius, Val(actual)))

\* C11: when a call goes on to its attempt k > 1, the response of its
\* attempt k - 1 is the one received in that very step, that response's
\* distance is what lastActualDistanceMeters then holds, and the radius
\* of attempt k is computed from it, whatever another call that is
\* pending at the same time has stored there before.
C11_OwnObservedDistance ==
  [][\A r \in DOMAIN runs :
       NextAttempt(r) =>
         /\ \E req \in inflight : req.run = r /\ req.attempts = runs[r].attempts
         /\ \A req \in inflight' : req.run = r => req.attempts = runs'[r].attempts
         /\ runs'[r].override = OverrideFrom(r, lastActualDistanceMeters')
         /\ \A q \in DOMAIN runs \ {r} : runs'[q] = runs[q]]_vars

\* Both calls are pending, each in a retry, and they were corrected from
\* different observed distances.
C11_Witness ==
  /\ runs[1].pc = "fetch" /\ runs[2].pc = "fetch"
  /\ runs[1].attempts >= 2 /\ runs[2].attempts >= 2
  /\ runs[1].distanceMiles = runs[2].distanceMiles
  /\ runs[1].override # null /\ runs[2].override # null
  /\ runs[1].override # runs[2].override

\* A click starts call r in this step.
Starts(r) == runs[r].pc = "idle" /\ runs'[r].pc = "fetch"

\* C12: the first attempt of every call passes no radius override and
\* sends the waypoints generateWaypoints places for the start, the distance
\* and the boundary of the click alone, whatever lastActualDistanceMeters an
\* earlier call has left behind.
C12_FirstAttemptUnbiased ==
  [][\A r \in DOMAIN runs :
       Starts(r) =>
         /\ runs'[r].attempts = 1
         /\ runs'[r].override = null
         /\ runs'[r].lastRadius = null
         /\ \E rnd \in PageRandom :
              runs'[r].waypoints =
                generateWaypoints(Val(startLocation).lat, Val(startLocation).lng,
                                  Val(runs'[r].distanceMiles), null,
                                  Some(boundaryVertices), rnd)]_vars

\* A call is in its first attempt while lastActualDistanceMeters still
\* holds the distance an earlier call observed.
C12_Witness ==
  /\ runs[1].pc = "fetch"
  /\ runs[1].attempts = 1
  /\ runs[1].override = null
  /\ lastActualDistanceMeters # null
  /\ ~FalsyNumber(lastActualDistanceMeters)

\* C13: each further attempt of a call is generated against the same
\* boundary constraint as the attempt before it, hence as attempt 1,
\* whatever boundary events happen while the call awaits its responses.
C13_SameBoundaryInRun ==
  [][\A r \in DOMAIN runs :
       NextAttempt(r) => runs'[r].boundary = runs[r].boundary]_vars

(***************************************************************************)
(* Properties of the symmetric variant (SpecApp)                           *)
(***************************************************************************)
\* Call 1 of the app.js page receives a route f times as long as its target.
AppReceivesRoute(f) == app_Receive(1, RouteResponse(1, RMul(Target, f)), PageRandom)

\* |observed - target| / target <= 0.10 for observed = f * target.
Within10(f) == RGe(RSub(f, I(1)), <<-1, 10>>) /\ RLe(RSub(f, I(1)), <<1, 10>>)

\* C14: a call of app.js's computeRoute makes at most 3 routing requests;
\* an attempt that observes a route ends the call with that route when
\* |observed - target| / target <= 0.10 or it is the third attempt, and is
\* followed by another attempt only when the ratio exceeds 0.10 and fewer
\* than 3 attempts were made.
C14_AppThreeAttempts ==
  /\ [](runs[1].attempts <= 3)
  /\ [](\A req \in inflight : req.attempts <= 3)
  /\ [][\A f \in AppFactors :
          (runs[1].pc = "fetch" /\ AppReceivesRoute(f)) =>
            /\ (Within10(f) \/ runs[1].attempts >= 3) => Accepted(runs[1].attempts)
            /\ (~Within10(f) /\ runs[1].attempts < 3) => AnotherAttempt(runs[1].attempts)]_vars

\* A call has ended on its third request with a route 11% too long, after
\* a second attempt that was corrected from an observed distance.
C14_Witness ==
  /\ runs[1].pc = "idle"
  /\ inflight = {}
  /\ currentPolyline = Some(<<1, 3>>)
  /\ lastDistanceMiles = Some(I(5))
  /\ lastActualDistanceMeters = Some(RMul(targetMetersOf(I(5)), <<111, 100>>))
  /\ ~dom.regenerate_disabled

(***************************************************************************)
(* Properties of the Regenerate button (SpecRegenerate)                    *)
(***************************************************************************)
\* C15: a call started with the Regenerate button has the distance of the
\* most recent successfully generated route, lastDistanceMiles, as its
\* target, whatever the distance input holds at the click.  The step is a
\* click on Regenerate, enabled, with any content of the distance input.
C15_RegenerateSameDistance ==
  [][\A r \in DOMAIN runs :
       (Starts(r) /\ ClickRegenerate(RegenerateInputs, PageRandom)) =>
         runs'[r].distanceMiles = lastDistanceMiles]_vars

(***************************************************************************)
(* Properties of POST /api/route (SpecServer)                              *)
(***************************************************************************)
Req == Val(server.req)

\* The request is a POST with an origin and an array of waypoint objects,
\* handled by a server whose API key is set.
ValidRequest ==
  /\ server.req # null
  /\ Req.method = "POST"
  /\ Req.apiKey # null
  /\ Req.origin.t = "object"
  /\ Req.waypoints.t = "array"
  /\ \A k \in DOMAIN Req.waypoints.items : Req.waypoints.items[k].t = "object"

\* C16: for a valid request the handler sends the provider one body, whose
\* destination equals its origin, both holding the request's origin, and
\* whose intermediates hold the request's waypoints: as many, in the same
\* order, each with its latitude and longitude unchanged.
C16_BodyIsLoopThroughWaypoints ==
  ValidRequest =>
    /\ server.pc \in {"fetch", "done"}
    /\ Len(server.calls) = 1
    /\ LET body == server.calls[1]
           coords(x) == x.location.latLng
       IN  /\ body.destination = body.origin
           /\ coords(body.origin).latitude = Req.origin.lat
           /\ coords(body.origin).longitude = Req.origin.lng
           /\ Len(body.intermediates) = Len(Req.waypoints.items)
           /\ \A k \in DOMAIN Req.waypoints.items :
                /\ coords(body.intermediates[k]).latitude = Req.waypoints.items[k].lat
                /\ coords(body.intermediates[k]).longitude = Req.waypoints.items[k].lng

\* The provider was sent a body with two different waypoints in the
\* request's order.
C16_Witness ==
  /\ ValidRequest
  /\ server.pc = "fetch"
  /\ Req.origin = Obj(Some(40), Some(-74))
  /\ Req.waypoints.items = <<Obj(Some(42), Some(-72)), Obj(Some(41), Some(-73))>>
  /\ server.calls[1].intermediates[1].location.latLng.latitude = Some(42)
  /\ server.calls[1].intermediates[2].location.latLng.longitude = Some(-73)

\* The request lacks origin or waypoints, or its waypoints are no array.
Incomplete ==
  /\ server.req # null
  /\ Req.method = "POST"
  /\ \/ Req.origin.t = "undefined"
     \/ Req.waypoints.t = "undefined"
     \/ Req.waypoints.t # "array"

Answered400 ==
  /\ server.pc = "done"
  /\ server.res = Some(Reply(400, Some("origin and waypoints array are required"), null, null))
  /\ server.calls = <<>>

\* C17 as stated: every POST whose origin is missing, whose waypoints are
\* missing or whose waypoints are not an array is answered 400 'origin and
\* waypoints array are required' with no call to the provider.
C17_IncompleteIs400 == Incomplete => Answered400

\* C17 as amended: the same, for a server whose API key is set.
C17_IncompleteIs400WithKey == (Incomplete /\ Req.apiKey # null) => Answered400

\* A POST with an origin and a string for waypoints was answered 400.
C17_Witness ==
  /\ Incomplete
  /\ Req.apiKey # null
  /\ Req.origin.t = "object"
  /\ Req.waypoints = Str("not-an-array")
  /\ Answered400

(***************************************************************************)
(* Further properties of the pure functions (SpecGeo)                      *)
(***************************************************************************)
\* Waypoint k of call c as lines 102-110 compute it, before the boundary
\* is looked at.
Computed(c, k) ==
  LET angle == c.rnd.offset + (SECTORS * (k - 1)) \div getWaypointCount(c.distanceMiles)
  IN  Pt(RAdd(c.startLat, Polar(angle).dLat), RAdd(c.startLng, Polar(angle).dLng))

\* The boundary of call c is missing or has fewer than 3 vertices.
NoActiveBoundary(c) == c.boundary = null \/ Len(Val(c.boundary)) < 3

\* C18: with a boundary that is null, undefined or of fewer than 3
\* vertices, generateWaypoints returns each point as computed.
C18_SmallBoundaryIgnored ==
  (Returned("generateWaypoints") /\ NoActiveBoundary(Val(gCall))) =>
    \A k \in DOMAIN Val(gResult) : Val(gResult)[k] = Computed(Val(gCall), k)

\* A call with two vertices for a boundary returned a first point that is
\* not on the segment between them, where a constraint would have put it.
C18_Witness ==
  /\ Returned("generateWaypoints")
  /\ Val(gCall).boundary = Some(SubSeq(square, 1, 2))
  /\ Val(gCall).distanceMiles = I(5)
  /\ Len(Val(gResult)) = 6
  /\ Val(gResult)[1].lat # I(0)

\* (u - v) . (w - v), the dot product of two displacements from v.
Dot(u, v, w) ==
  RAdd(RMul(RSub(u.lat, v.lat), RSub(w.lat, v.lat)),
       RMul(RSub(u.lng, v.lng), RSub(w.lng, v.lng)))

\* The point a + (j / n) * (b - a) of the segment.
Along(a, b, j, n) ==
  Pt(RAdd(a.lat, RMul(<<j, n>>, RSub(b.lat, a.lat))),
     RAdd(a.lng, RMul(<<j, n>>, RSub(b.lng, a.lng))))

\* Number of parts the segment is cut into for the comparison of distances.
Parts == 8

\* p = a + t * (b - a) for the one t it can be, and 0 <= t <= 1.
OnClosedSegment(p, a, b) ==
  LET t == RDiv(Dot(p, a, b), Dot(b, a, b))
  IN  /\ RGe(t, I(0))
      /\ RLe(t, I(1))
      /\ p = Pt(RAdd(a.lat, RMul(t, RSub(b.lat, a.lat))),
                RAdd(a.lng, RMul(t, RSub(b.lng, a.lng))))

\* No point of the segment is closer to q than p: in the interior of the
\* segment q - p is perpendicular to it, at an end it points away from it.
ClosestOfSegment(p, q, a, b) ==
  /\ p # a /\ p # b => Dot(q, p, b) = I(0)
  /\ p = a => RLe(Dot(q, a, b), I(0))
  /\ p = b => RLe(Dot(q, b, a), I(0))

\* C19: projectToSegment returns a point a + t * (b - a) with 0 <= t <= 1
\* that is at least as close to the query point as every other point of
\* the closed segment; for a = b it returns a.
C19_ProjectionIsClosest ==
  Returned("projectToSegment") =>
    LET c == Val(gCall)
        p == Val(gResult)
        q == Pt(c.lat, c.lng)
    IN  IF c.a = c.b
        THEN p = c.a
        ELSE /\ OnClosedSegment(p, c.a, c.b)
             /\ ClosestOfSegment(p, q, c.a, c.b)
             /\ \A j \in 0..Parts :
                  RLe(SquaredDistance(p, c.lat, c.lng),
                      SquaredDistance(Along(c.a, c.b, j, Parts), c.lat, c.lng))

\* A query beyond the end b of a slanted segment was clamped to b.
C19_Witness ==
  /\ Returned("projectToSegment")
  /\ Val(gCall).a = Pt(I(1), I(2))
  /\ Val(gCall).b = Pt(I(4), I(4))
  /\ Pt(Val(gCall).lat, Val(gCall).lng) = Pt(I(5), I(5))
  /\ Val(gResult) = Pt(I(4), I(4))

\* (b - a) x (q - a): positive on one side of the line through a and b,
\* negative on the other, 0 on it.
Cross(a, b, q) ==
  RSub(RMul(RSub(b.lng, a.lng), RSub(q.lat, a.lat)),
       RMul(RSub(b.lat, a.lat), RSub(q.lng, a.lng)))

\* q is in the closed convex polygon piece: on one side of all its edges.
InClosedConvex(q, piece) ==
  \/ \A i \in 1..Len(piece) : RGe(Cross(piece[Prev(i, piece)], piece[i], q), I(0))
  \/ \A i \in 1..Len(piece) : RLe(Cross(piece[Prev(i, piece)], piece[i], q), I(0))

\* The polygons of the calls cut into convex pieces: the L-shape into two
\* rectangles, the chevron into the three triangles at its notch vertex.
Pieces(polygon) ==
  IF polygon = lShape
  THEN { << Pt(I(0), I(0)), Pt(I(0), I(4)), Pt(I(2), I(4)), Pt(I(2), I(0)) >>,
         << Pt(I(2), I(0)), Pt(I(2), I(2)), Pt(I(4), I(2)), Pt(I(4), I(0)) >> }
  ELSE IF polygon = chevron
  THEN { << Pt(I(1), I(2)), Pt(I(0), I(0)), Pt(I(0), I(4)) >>,
         << Pt(I(1), I(2)), Pt(I(0), I(4)), Pt(I(4), I(4)) >>,
         << Pt(I(1), I(2)), Pt(I(4), I(0)), Pt(I(0), I(0)) >> }
  ELSE {polygon}

InClosedRegion(q, polygon) == \E piece \in Pieces(polygon) : InClosedConvex(q, piece)

OnBoundary(q, polygon) ==
  \E i \in 1..Len(polygon) : OnClosedSegment(q, polygon[Prev(i, polygon)], polygon[i])

OutsideBox(q, polygon) ==
  \/ \A i \in 1..Len(polygon) : RLt(q.lat, polygon[i].lat)
  \/ \A i \in 1..Len(polygon) : RGt(q.lat, polygon[i].lat)
  \/ \A i \in 1..Len(polygon) : RLt(q.lng, polygon[i].lng)
  \/ \A i \in 1..Len(polygon) : RGt(q.lng, polygon[i].lng)

\* C20: pointInPolygon is true for every point strictly inside the polygon
\* and false for every point outside its bounding box and every point
\* outside the polygon within the box, such as a point of a notch.
C20_PointInPolygonClassifies ==
  Returned("pointInPolygon") =>
    LET c == Val(gCall)
        q == Pt(c.lat, c.lng)
    IN  /\ (InClosedRegion(q, c.polygon) /\ ~OnBoundary(q, c.polygon)) => Val(gResult)
        /\ OutsideBox(q, c.polygon) => ~Val(gResult)
        /\ ~InClosedRegion(q, c.polygon) => ~Val(gResult)

\* The notch point (3,3) of the L-shape was classified as outside.
C20_Witness ==
  /\ Returned("pointInPolygon")
  /\ Val(gCall).polygon = lShape
  /\ Pt(Val(gCall).lat, Val(gCall).lng) = Pt(I(3), I(3))
  /\ ~OutsideBox(Pt(I(3), I(3)), lShape)
  /\ Val(gResult) = FALSE

(***************************************************************************)
(* Properties of the calls followed through their bodies (SpecCalls)       *)
(***************************************************************************)
\* 2 * pi * (distanceMiles * 1609.34 / (2 * pi * 1.3)), as c * sqrt(s).
ModelRadius(distanceMiles) ==
  [c |-> RDiv(RMul(distanceMiles, <<80467, 50>>), <<13, 10>>), s |-> I(1)]

\* C21: with a radius override that is null, undefined or 0,
\* generateWaypoints uses the radius distanceMiles * 1609.34 / (2 * pi *
\* 1.3); a positive override is the radius it uses, unchanged.
C21_OverrideOrModelRadius ==
  Returned("generateWaypoints") =>
    LET c == Val(gCall)
    IN  IF c.radiusOverride = null \/ Val(c.radiusOverride).c = I(0)
        THEN Val(gResult).radius = ModelRadius(c.distanceMiles)
        ELSE Val(gResult).radius = Val(c.radiusOverride)

\* A call for 5 miles with the override 0 used the radius of the model,
\* 2 * pi * radius = 8046.7 / 1.3 = 80467 / 13.
C21_Witness ==
  /\ Returned("generateWaypoints")
  /\ Val(gCall).distanceMiles = I(5)
  /\ Val(gCall).radiusOverride = Some([c |-> I(0), s |-> I(1)])
  /\ Val(gResult).radius = [c |-> <<80467, 13>>, s |-> I(1)]

\* x is written with 6 decimals and is the nearest such number to y.
Shown6(x, y) ==
  /\ 1000000 % x[2] = 0
  /\ RLe(RSub(x, y), <<1, 2000000>>)
  /\ RLe(RSub(y, x), <<1, 2000000>>)

ShownPoint(p, q) == Shown6(p.lat, q.lat) /\ Shown6(p.lng, q.lng)

\* C22: the maps link lists the start location, every waypoint of
\* lastWaypoints in order, and the start location again, n + 2 points with
\* the first equal to the last, each written with 6 decimals; with no
\* start location or no waypoint there is no link.
C22_LinkIsLoopThroughWaypoints ==
  Returned("buildGoogleMapsUrl") =>
    LET c == Val(gCall)
        url == Val(gResult)
        n == Len(c.waypoints)
    IN  IF c.startLocation = null \/ n = 0
        THEN url = null
        ELSE /\ url # null
             /\ Len(Val(url)) = n + 2
             /\ ShownPoint(Val(url)[1], Val(c.startLocation))
             /\ Val(url)[n + 2] = Val(url)[1]
             /\ \A k \in 1..n : ShownPoint(Val(url)[k + 1], c.waypoints[k])

\* The link of the start (40, -74) and three waypoints has 5 points, the
\* waypoints second to fourth in their order.
C22_Witness ==
  /\ Returned("buildGoogleMapsUrl")
  /\ Val(gCall).startLocation = Some(Pt(I(40), I(-74)))
  /\ Val(gCall).waypoints = << Pt(I(41), I(-73)), Pt(I(42), I(-72)), Pt(I(43), I(-71)) >>
  /\ Val(gResult) # null
  /\ Len(Val(Val(gResult))) = 5
  /\ Val(Val(gResult))[2] = Pt(I(41), I(-73))
  /\ Val(Val(gResult))[4] = Pt(I(43), I(-71))
  /\ Val(Val(gResult))[5] = Pt(I(40), I(-74))

\* The boundary of call c has at least 3 vertices.
ActiveBoundary(c) == c.boundary # null /\ Len(Val(c.boundary)) >= 3

\* C25: generateWaypoints calls nearestPointOnPolygon for a computed point
\* only if the boundary is active and the point fails pointInPolygon
\* against it, and the point it pushes is then the one nearestPointOnPolygon
\* returns; a computed point that passes pointInPolygon is pushed exactly
\* as computed.
C25_NearestOnlyForFailedPoints ==
  Returned("generateWaypoints") =>
    LET c == Val(gCall)
        l == Val(gResult)
    IN  \A k \in 1..l.count :
          LET p == l.computed[k]
              passes == pointInPolygon(p.lat, p.lng, Val(c.boundary))
          IN  /\ l.nearestCalled[k] => (ActiveBoundary(c) /\ ~passes)
              /\ (ActiveBoundary(c) /\ ~passes) =>
                   /\ l.nearestCalled[k]
                   /\ l.waypoints[k] = nearestPointOnPolygon(p.lat, p.lng, Val(c.boundary))
              /\ (ActiveBoundary(c) /\ passes) =>
                   /\ ~l.nearestCalled[k]
                   /\ l.waypoints[k] = p

\* A call within the L-shape pushed one point as computed and replaced
\* another, for which alone nearestPointOnPolygon was called.
C25_Witness ==
  /\ Returned("generateWaypoints")
  /\ Val(gCall).boundary = Some(lShape)
  /\ \E j, k \in 1..Val(gResult).count :
       /\ Val(gResult).nearestCalled[j]
       /\ Val(gResult).waypoints[j] # Val(gResult).computed[j]
       /\ ~Val(gResult).nearestCalled[k]
       /\ Val(gResult).waypoints[k] = Val(gResult).computed[k]
       /\ pointInPolygon(Val(gResult).computed[k].lat, Val(gResult).computed[k].lng, lShape)

\* The factor 0.85 + 0.3 * draw of a Math.random() outcome.
JitterFactor(draw) == RAdd(<<17, 20>>, RMul(<<3, 10>>, draw))

\* C26: before any boundary projection, waypoint i (from 0) of a call lies
\* at the angle offset + 2*pi*i/count, offset being the one randomOffset of
\* the call, at a distance from the start of the base radius times a factor
\* in [0.85, 1.15) that comes from the random draw of its own iteration.
C26_SharedOffsetOwnJitter ==
  Returned("generateWaypoints") =>
    LET c == Val(gCall)
        l == Val(gResult)
    IN  /\ RGe(l.randomOffset, I(0)) /\ RLt(l.randomOffset, I(1))
        /\ \A k \in 1..l.count :
             LET factor == RDiv(l.polar[k].perturbedRadius.c, l.radius.c)
             IN  /\ l.polar[k].angle = RAdd(l.randomOffset, Norm(k - 1, l.count))
                 /\ l.polar[k].perturbedRadius.s = l.radius.s
                 /\ RGe(factor, <<17, 20>>)
                 /\ RLt(factor, <<23, 20>>)
                 /\ factor = JitterFactor(c.rnd.jitter[k])

\* A call for 5 miles placed its first two waypoints at different
\* distances, 0.85 and 1.147 times the radius, 60 degrees apart from the
\* offset of 75 degrees.
C26_Witness ==
  /\ Returned("generateWaypoints")
  /\ Val(gResult).count = 6
  /\ Val(gResult).randomOffset = <<5, 24>>
  /\ Val(gResult).polar[1].angle = <<5, 24>>
  /\ Val(gResult).polar[2].angle = <<3, 8>>
  /\ Val(gResult).polar[1].perturbedRadius.c = RMul(Val(gResult).radius.c, <<17, 20>>)
  /\ Val(gResult).polar[2].perturbedRadius.c = RMul(Val(gResult).radius.c, <<1147, 1000>>)

\* C29: adjustWaypoints generates with the radius base * sqrt(target /
\* actual), base being the radius of the model for the target distance:
\* smaller than base exactly when actual exceeds the target, larger exactly
\* when it is below, and smaller the larger actual is.
C29_AdjustedRadius ==
  Returned("adjustWaypoints") =>
    LET c == Val(gCall)
        used == Val(gResult).radius
        base == ModelRadius(c.distanceMiles)
        target == RMul(c.distanceMiles, <<80467, 50>>)
        actual == c.actualDistanceMeters
    IN  /\ RadiusRatio(used, base) = RDiv(target, actual)
        /\ RadiusLt(used, base) <=> RGt(actual, target)
        /\ RadiusLt(base, used) <=> RLt(actual, target)
        /\ \A f \in CallActuals :
             LET other == RMul(target, f)
             IN  RLt(actual, other) =>
                   RadiusLt(adjustedRadiusOf(c.distanceMiles, other), used)

\* A call for 5 miles that observed twice the target generated with the
\* radius base / sqrt(2), the waypoints being those of generateWaypoints
\* for that radius.
C29_Witness ==
  /\ Returned("adjustWaypoints")
  /\ Val(gCall).distanceMiles = I(5)
  /\ Val(gCall).actualDistanceMeters = <<80467, 5>>
  /\ Val(gResult).radius = [c |-> <<80467, 13>>, s |-> <<1, 2>>]
  /\ RadiusLt(Val(gResult).radius, ModelRadius(I(5)))
  /\ Len(Val(gResult).waypoints) = 6

(***************************************************************************)
(* Properties of the boundary handlers and of failed calls (Spec)          *)
(***************************************************************************)
\* C23: a boundary polygon finalized before drawing mode is entered is
\* kept through drawing mode and its cancellation: no step of
\* toggleBoundaryMode removes it, and once drawing mode is off again its
\* vertices are the boundary waypoints are generated against.
C23_CancelKeepsFinalizedPolygon ==
  [][toggleBoundaryMode =>
       /\ boundaryPolygon' = boundaryPolygon
       /\ (~boundaryMode' /\ boundaryPolygon' # null) =>
            Effective(boundaryVertices') = Val(boundaryPolygon')]_vars

\* C24: a response with an error status, on any attempt, ends the call at
\* once: no request is pending, no route is drawn or recorded, and the
\* error shown is data.details, else data.error, else 'Route generation
\* failed'.
C24_HttpErrorEndsRun ==
  [][\A res \in HttpErrorResponses :
       (runs[1].pc = "fetch" /\ Receive(1, res, PageRandom)) =>
         /\ runs'[1].pc = "idle"
         /\ inflight' = {}
         /\ currentPolyline' = currentPolyline
         /\ lastWaypoints' = lastWaypoints
         /\ lastDistanceMiles' = lastDistanceMiles
         /\ lastActualDistanceMeters' = lastActualDistanceMeters
         /\ dom'.routeInfo_hidden
         /\ dom'.link_hidden
         /\ dom'.loading_hidden
         /\ dom'.error =
              IF res.data.details # null THEN res.data.details
              ELSE IF res.data.error # null THEN res.data.error
              ELSE Some("Route generation failed")]_vars

\* A call that had observed a distance and retried has ended on an error
\* response with details: they are shown and no route was ever drawn.
C24_Witness ==
  /\ runs[1].pc = "idle"
  /\ inflight = {}
  /\ dom.error = Some("Routes API error detail")
  /\ dom.loading_hidden
  /\ lastActualDistanceMeters # null
  /\ currentPolyline = null

\* C27: finishBoundary with fewer than 3 vertices shows 'Draw at least 3
\* points to create a boundary' and changes nothing else: drawing mode
\* stays on, the vertices are kept and no polygon is created.
C27_FinishNeedsThreeVertices ==
  [][(finishBoundary /\ Len(boundaryVertices) < 3) =>
       /\ dom' = [dom EXCEPT !.error = Some("Draw at least 3 points to create a boundary")]
       /\ boundaryMode /\ boundaryMode'
       /\ boundaryVertices' = boundaryVertices
       /\ boundaryPolygon' = null
       /\ ~dom'.done_hidden
       /\ UNCHANGED <<startLocation, currentPolyline, lastDistanceMiles, lastWaypoints,
                      lastActualDistanceMeters, runs, inflight>>]_vars

\* Done was clicked too early: the message is shown, drawing mode is on
\* with the two vertices drawn, and there is no polygon.
C27_Witness ==
  /\ boundaryMode
  /\ Len(boundaryVertices) = 2
  /\ boundaryPolygon = null
  /\ ~dom.done_hidden
  /\ dom.error = Some("Draw at least 3 points to create a boundary")

(***************************************************************************)
(* Properties of computeRoute called directly (SpecDirect)                 *)
(***************************************************************************)
\* The distance input holds no number, or one below 0.5 or above 50.
Unacceptable(value) ==
  value = null \/ RLt(Val(value), <<1, 2>>) \/ RGt(Val(value), I(50))

\* C28: a computeRoute call with no start location, or with a distance
\* input that is no number, below 0.5 or above 50, makes no routing request
\* and leaves the loading indicator, the buttons, the route displayed and
\* lastActualDistanceMeters as they were; with no start location it changes
\* nothing at all, else it only shows 'Enter a distance between 0.5 and 50
\* miles'.
C28_InvalidCallChangesNothing ==
  [][\A isRegenerate \in BOOLEAN, value \in DistanceInputs :
       (/\ computeRoute(isRegenerate, value, PageRandom)
        /\ startLocation = null \/ Unacceptable(value)) =>
         /\ inflight' = inflight
         /\ runs' = runs
         /\ dom'.loading_hidden = dom.loading_hidden
         /\ dom'.generate_disabled = dom.generate_disabled
         /\ dom'.regenerate_disabled = dom.regenerate_disabled
         /\ dom'.routeInfo_hidden = dom.routeInfo_hidden
         /\ dom'.link_hidden = dom.link_hidden
         /\ currentPolyline' = currentPolyline
         /\ lastActualDistanceMeters' = lastActualDistanceMeters
         /\ startLocation = null => dom' = dom
         /\ startLocation # null =>
              dom' = [dom EXCEPT !.error = Some("Enter a distance between 0.5 and 50 miles")]]_vars

\* After a route was drawn, a call with an unacceptable distance has shown
\* the message and left the route, its panel, the buttons and the last
\* observed distance in place.
C28_Witness ==
  /\ runs[1].pc = "idle"
  /\ inflight = {}
  /\ dom.error = Some("Enter a distance between 0.5 and 50 miles")
  /\ currentPolyline # null
  /\ ~dom.routeInfo_hidden
  /\ ~dom.link_hidden
  /\ ~dom.regenerate_disabled
  /\ ~dom.generate_disabled
  /\ dom.loading_hidden
  /\ lastActualDistanceMeters # null

(***************************************************************************)
(* Further properties of overlapping calls (SpecOverlap)                   *)
(***************************************************************************)
\* The calls between their start and their finally block.
InProgress == {r \in DOMAIN runs : runs[r].pc = "fetch"}

\* C30: while a computeRoute call is in progress both Generate and
\* Regenerate are disabled, whatever the user does meanwhile, and so at
\* most one call is in progress.
C30_ButtonsDisabledDuringRun ==
  /\ InProgress # {} => (dom.generate_disabled /\ dom.regenerate_disabled)
  /\ Cardinality(InProgress) <= 1


(***************************************************************************)
(* Properties of the page under events during and after a call             *)
(***************************************************************************)
\* The start the pending request of call r was built from (line 396).
OriginOf(r) == ReqOf(r).origin

\* C31: every further attempt of a call uses the start location of the
\* attempt before it, hence of attempt 1, as origin of its routing request
\* and as centre of its waypoints, also when the start is set anew by a
\* map click or a picked place while the call awaits a response.
C31_SameStartInRun ==
  [][\A r \in DOMAIN runs :
       NextAttempt(r) =>
         \A before \in {OriginOf(r)} :
           /\ \A req \in inflight' : req.run = r => req.origin = before
           /\ \E rnd \in PageRandom :
                runs'[r].waypoints =
                  generateWaypoints(before.lat, before.lng, Val(runs[r].distanceMiles),
                                    runs'[r].override, Some(boundaryVertices), rnd)]_vars

\* Lines 384-386: biasedTarget / lastActualDistanceMeters for an observed
\* distance of f times the target, 1.05 / f.
CorrectionRatio(f) == RDiv(RMul(Target, <<21, 20>>), RMul(Target, f))

\* Line 388: lastRadius || baseRadius, the radius a retry of call 1 scales.
ScaledFrom ==
  IF FalsyRadius(runs[1].lastRadius)
  THEN [c |-> RDiv(Target, <<23, 20>>), s |-> I(1)]
  ELSE Val(runs[1].lastRadius)

\* Call 1 goes on to another attempt on a route f times its target, its
\* ratio and its new radius pointing the way the miss asks for.
RetryPointsRightWay(f) ==
  /\ runs'[1].override # null
  /\ tooLong(Val(runs[1].distanceMiles), RMul(Target, f)) =>
       /\ RLt(CorrectionRatio(f), I(1))
       /\ RadiusLt(Val(runs'[1].override), ScaledFrom)
  /\ tooShort(Val(runs[1].distanceMiles), RMul(Target, f)) =>
       /\ RGt(CorrectionRatio(f), I(1))
       /\ RadiusLt(ScaledFrom, Val(runs'[1].override))

\* C32 as stated: every retry of the refinement loop, caused by a route
\* more than 10% too long or more than 3% too short, computes a ratio
\* 1.05 * target / observed below 1, respectively above 1, and passes a
\* radius smaller, respectively larger, than the radius it is scaled from.
C32_CorrectionPointsRightWay ==
  [][\A f \in ObservedFactors :
       (runs[1].pc = "fetch" /\ ReceivesRoute(f) /\ NextAttempt(1)) =>
         RetryPointsRightWay(f)]_vars

\* C32, amended: the same for every retry caused by a route of non-zero
\* observed distance; an observed distance of 0 is too short and is retried
\* with no ratio computed and no radius passed (line 380).
C32_CorrectionPointsRightWayNonZero ==
  [][\A f \in ObservedFactors :
       (runs[1].pc = "fetch" /\ ReceivesRoute(f) /\ NextAttempt(1)) =>
         IF FalsyNumber(Some(RMul(Target, f)))
         THEN runs'[1].override = null /\ runs'[1].lastRadius = runs[1].lastRadius
         ELSE RetryPointsRightWay(f)]_vars

\* Call 1 is in its third attempt, a retry caused by a too-long route and
\* scaled from the radius of its second attempt.
C32_Witness ==
  /\ runs[1].pc = "fetch"
  /\ runs[1].attempts = 3
  /\ runs[1].override # null
  /\ lastActualDistanceMeters # null
  /\ tooLong(Val(runs[1].distanceMiles), Val(lastActualDistanceMeters))

\* C33: after every sequence of boundary events a finalized polygon exists
\* only while boundaryMode is false and boundaryVertices holds at least 3
\* vertices.
C33_PolygonOnlyWhenFinalized ==
  boundaryPolygon # null => (~boundaryMode /\ Len(boundaryVertices) >= 3)

\* A polygon was finalized from a drawing one of whose vertices was dragged.
C33_Witness ==
  /\ boundaryPolygon # null
  /\ \E i \in 1..Len(boundaryVertices) : boundaryVertices[i] \in DragTargets

\* C34: after every sequence of boundary events the Done button is shown
\* exactly while boundaryMode is true, and the Clear Boundary button exactly
\* while a finalized polygon exists.
C34_ButtonsFollowBoundaryState ==
  /\ ~dom.done_hidden <=> boundaryMode
  /\ ~dom.clear_hidden <=> boundaryPolygon # null

\* A drawing was cancelled or a boundary cleared after a Done click that
\* was refused.
C34_Witness ==
  /\ ~boundaryMode
  /\ boundaryPolygon = null
  /\ dom.error = Some("Draw at least 3 points to create a boundary")

\* Call r starts an attempt in this step: its first, or a further one.
AttemptStarts(r) ==
  /\ runs'[r].pc = "fetch"
  /\ runs'[r].attempts = runs[r].attempts + 1

\* The waypoints the attempt call r has just started would have with no
\* boundary at all.
Unconstrained(r) ==
  {generateWaypoints(Val(startLocation).lat, Val(startLocation).lng,
                     Val(runs'[r].distanceMiles), runs'[r].override, Some(<<>>), rnd) :
     rnd \in PageRandom}

\* C35: an attempt is generated against a boundary constraint only when
\* that boundary is a polygon finalized by finishBoundary; while a drawing
\* is in progress its vertices constrain nothing and the waypoints are
\* those of an unconstrained call.
C35_OnlyFinalizedConstrains ==
  [][\A r \in DOMAIN runs :
       AttemptStarts(r) =>
         /\ runs'[r].boundary # <<>> =>
              /\ ~boundaryMode
              /\ boundaryPolygon # null
              /\ Val(boundaryPolygon) = runs'[r].boundary
         /\ boundaryMode => runs'[r].waypoints \in Unconstrained(r)]_vars

\* Call r reaches its finally block in this step.
RunEnds(r) == runs[r].pc = "fetch" /\ runs'[r].pc = "idle"

\* Call r ends in its catch block: on an error status or on no route.
RunFails(r) ==
  \E res \in HttpErrorResponses \cup NoRouteResponses : Receive(r, res, PageRandom)

\* C36: when a call ends, by success or by error, the loading indicator is
\* hidden and Generate is enabled exactly when a start location is set;
\* when it ends by error, Regenerate is disabled and the route info hidden,
\* and both stay so in every step that is not the success of a call.
C36_DomAfterRunEnds ==
  [][/\ \A r \in DOMAIN runs :
          /\ RunEnds(r) =>
               /\ dom'.loading_hidden
               /\ dom'.generate_disabled <=> startLocation' = null
          /\ RunFails(r) =>
               /\ dom'.regenerate_disabled
               /\ dom'.routeInfo_hidden
     /\ (\A r \in DOMAIN runs : RunEnds(r) => RunFails(r)) =>
          /\ dom.regenerate_disabled => dom'.regenerate_disabled
          /\ dom.routeInfo_hidden => dom'.routeInfo_hidden]_vars
====
